---- MODULE Spec2Model ----
(***************************************************************************)
(* A model of the quid scraping backend: the session store                 *)
(* (backend/core/session_manager.py), the scrape orchestrator              *)
(* (backend/core/scraper.py, backend/app.py), form-based login             *)
(* (backend/auth/strategies/form_based.py), extractor selection            *)
(* (backend/extractors/), plugins and site configs (backend/core/          *)
(* plugin_manager.py, config_loader.py), the auth registry                 *)
(* (backend/core/auth_registry.py) and the interaction handlers            *)
(* (backend/interactions/).                                                *)
(*                                                                         *)
(* These specifications share the module:                                  *)
(*   SpecStore  session managers of several processes working on the       *)
(*              session files of a POSIX-style file system;                *)
(*   Spec       one HTTP query: async with GenericScraper(...) as scraper: *)
(*              await asyncio.wait_for(scraper.query(q), 120);             *)
(*   SpecLogin  FormBasedAuth.login called on its own, on a page its      *)
(*              caller opened;                                             *)
(*   SpecEntry  a request through the API or the CLI up to the launch of   *)
(*              the browser;                                               *)
(*   SpecExpiry is_session_expired against the clock;                      *)
(*   SpecFound  the managers of one site over a session file found in any  *)
(*              condition;                                                 *)
(*   SpecAuth   GenericScraper._get_auth_strategy over the auth sections   *)
(*              a config can hold;                                         *)
(*   SpecPlugins   the plugin manager and the config loader's load_site;   *)
(*   SpecRegistry  AuthRegistry's register, get and list calls;            *)
(*   SpecInteract  _handle_interactions over the registered handlers;      *)
(*   SpecGate      requests passing the API's verify_api_key middleware.   *)
(***************************************************************************)
EXTENDS Integers, Sequences, FiniteSets, TLC

(***************************************************************************)
(* Bounds of the model.                                                    *)
(***************************************************************************)
NumProcs == 3       \* session managers (one per concurrent query/process)
NumSites == 2       \* site ids
NumValues == 2      \* distinct session states a save may write
MaxOps == 2         \* session operations each manager performs

Procs == 1..NumProcs
Sites == 1..NumSites
Values == 1..NumValues

VARIABLES
    platform,   \* which locking module the import at module load found
    dir,        \* dir[s]: the inode session_dir/<s>.json names, or NoFile
    inodes,     \* inodes[i]: the content of file i, a sequence of chunks
    sp,         \* sp[p]: the state of session manager p's current call
    cfg,        \* the site configuration and credentials one query runs with
    pc,         \* where the query's task stands
    timer,      \* asyncio.wait_for's timeout: "off", "armed" or "fired"
    self,       \* GenericScraper's playwright, browser, context, page fields
    file,       \* the site's session file, as this query's SessionManager finds it
    web,        \* the page the browser shows: its url and elements
    lg,         \* locals of FormBasedAuth.login / validate_session
    ex,         \* locals of _extract_data / select_extractor
    log,        \* history: steps run, steps run after the timeout, closes tried
    out,        \* what leaves query() and what the caller is answered
    req,        \* the request: the entry point it came through and its query text
    tm,         \* the clock, the session file's mtime, and is_session_expired's answer
    authState,  \* a scraper's auth config, its cached strategy, _get_auth_strategy's answer
    plug,  \* the plugin manager, the config loader's cache, and their last call
    registry,  \* AuthRegistry._strategies, the register calls made, the last call
    ia,  \* the interaction handlers, the calls made to them, the results
    gate   \* the service's API key, the request at hand, how it was answered

storeVars == <<platform, dir, inodes, sp>>

queryVars == <<cfg, pc, timer, self, file, web, lg, ex, log, out, req, tm, authState, gate, ia, registry, plug>>

vars == <<storeVars, queryVars>>

(***************************************************************************)
(* SessionManager.__init__: one manager per site id, one file per site.    *)
(* Managers are dealt round-robin over the sites, so that at least two     *)
(* managers share a site and at least two sites are in use.                *)
(***************************************************************************)
SiteOf(p) == ((p - 1) % NumSites) + 1

Inodes == 1..(NumProcs + NumSites)

(* no file: what exists() is false of, and the fd of a manager with no file open *)
NoFile == 0

(***************************************************************************)
(* json.dump / json.load, by what they do to the bytes.  The text of value *)
(* v is TextLen(v) buffer-sized chunks <<v,1>> .. <<v,TextLen(v)>>: values *)
(* differ in length as session states do.  A text parses iff it is the     *)
(* complete text of one value; the empty text, a prefix, and one text laid *)
(* over another raise JSONDecodeError.                                     *)
(***************************************************************************)
TextLen(v) == v

Serialize(v) == [i \in 1..TextLen(v) |-> <<v, i>>]

WellFormed(c) == \E v \in Values : c = Serialize(v)

Parse(c) == CHOOSE v \in Values : c = Serialize(v)

(* the file is opened in text mode: f.read() decodes the bytes before
   json.load parses them, and a byte sequence that is not valid in the
   encoding raises UnicodeDecodeError, a ValueError that is not a
   JSONDecodeError *)
BadByte == <<0, -1>>

Decodable(c) == \A i \in 1..Len(c) : c[i] # BadByte

(* write(fd, data) at file offset off: overwrites, extends, keeps the rest;
   a write past the end of the file leaves a hole of zero bytes, <<0, 0>> *)
WriteAt(c, off, data) ==
    LET end == IF off + Len(data) > Len(c) THEN off + Len(data) ELSE Len(c)
    IN  [i \in 1..end |-> IF i > off /\ i <= off + Len(data) THEN data[i - off]
                          ELSE IF i <= Len(c) THEN c[i]
                          ELSE <<0, 0>>]

(***************************************************************************)
(* The file system: inodes live while a directory entry or an open file    *)
(* names them.  open(..., 'w') on a missing path takes the lowest free     *)
(* inode; a freed inode's content is dropped.                              *)
(***************************************************************************)
InUse(d, procs) ==
    {d[s] : s \in Sites} \cup {procs[p].fd : p \in Procs}

FreshInode ==
    CHOOSE i \in Inodes :
        /\ i \notin InUse(dir, sp)
        /\ \A j \in Inodes : j \notin InUse(dir, sp) => i <= j

Reclaim(d, procs, files) ==
    [i \in Inodes |-> IF i \in InUse(d, procs) THEN files[i] ELSE <<>>]

(* a manager between calls.  fd: the open file; val: the state being saved;
   got/data: what json.load made of the file; res: what the last call returned *)
Idle == [pc |-> "idle", op |-> "none", fd |-> NoFile, val |-> NoFile,
         lock |-> "none", got |-> "none", data |-> NoFile, res |-> "none", n |-> 0]

(***************************************************************************)
(* _lock_file / _unlock_file.  fcntl.flock takes LOCK_EX or LOCK_SH as     *)
(* asked; msvcrt.locking takes LK_LOCK whatever `exclusive` says; with     *)
(* neither module only a warning is logged.                                *)
(***************************************************************************)
LockKind(exclusive) ==
    IF platform = "fcntl" THEN (IF exclusive THEN "ex" ELSE "sh")
    ELSE IF platform = "msvcrt" THEN "ex"
    ELSE "none"

(* the lock of kind k on p's open file can be granted now *)
CanLock(p, k) ==
    \/ k = "none"
    \/ \A q \in Procs \ {p} :
          (sp[q].fd = sp[p].fd /\ sp[q].lock # "none")
              => (k = "sh" /\ sp[q].lock = "sh")

(***************************************************************************)
(* A manager starts its next call: load_session, save_session (the         *)
(* storage_state() it awaits first yields the value to write) or           *)
(* delete_session.                                                         *)
(***************************************************************************)
StartLoad(p) ==
    /\ sp[p].pc = "idle" /\ sp[p].n < MaxOps
    /\ sp' = [sp EXCEPT ![p] = [Idle EXCEPT !.pc = "ld_exists", !.op = "load",
                                            !.n = sp[p].n + 1]]
    /\ UNCHANGED <<platform, dir, inodes>>
    /\ UNCHANGED queryVars

StartSave(p) ==
    /\ sp[p].pc = "idle" /\ sp[p].n < MaxOps
    /\ \E v \in Values :
          sp' = [sp EXCEPT ![p] = [Idle EXCEPT !.pc = "sv_open", !.op = "save",
                                               !.val = v, !.n = sp[p].n + 1]]
    /\ UNCHANGED <<platform, dir, inodes>>
    /\ UNCHANGED queryVars

StartDelete(p) ==
    /\ sp[p].pc = "idle" /\ sp[p].n < MaxOps
    /\ sp' = [sp EXCEPT ![p] = [Idle EXCEPT !.pc = "del_exists", !.op = "delete",
                                            !.n = sp[p].n + 1]]
    /\ UNCHANGED <<platform, dir, inodes>>
    /\ UNCHANGED queryVars

(***************************************************************************)
(* load_session                                                            *)
(***************************************************************************)
(* if not self.session_file.exists(): return None *)
LoadExists(p) ==
    /\ sp[p].pc = "ld_exists"
    /\ sp' = [sp EXCEPT ![p].pc = IF dir[SiteOf(p)] = NoFile THEN "idle" ELSE "ld_open",
                        ![p].res = IF dir[SiteOf(p)] = NoFile THEN "None" ELSE "none"]
    /\ UNCHANGED <<platform, dir, inodes>>
    /\ UNCHANGED queryVars

(* open(self.session_file, 'r'); FileNotFoundError lands in except Exception *)
LoadOpen(p) ==
    /\ sp[p].pc = "ld_open"
    /\ sp' = [sp EXCEPT ![p].pc = IF dir[SiteOf(p)] = NoFile THEN "idle" ELSE "ld_lock",
                        ![p].fd = dir[SiteOf(p)],
                        ![p].res = IF dir[SiteOf(p)] = NoFile THEN "None" ELSE "none"]
    /\ UNCHANGED <<platform, dir, inodes>>
    /\ UNCHANGED queryVars

(* self._lock_file(f, exclusive=False) *)
LoadLock(p) ==
    /\ sp[p].pc = "ld_lock"
    /\ CanLock(p, LockKind(FALSE))
    /\ sp' = [sp EXCEPT ![p].lock = LockKind(FALSE), ![p].pc = "ld_read"]
    /\ UNCHANGED <<platform, dir, inodes>>
    /\ UNCHANGED queryVars

(* data = json.load(f): reads the file to its end, decodes and parses it *)
LoadRead(p) ==
    /\ sp[p].pc = "ld_read"
    /\ sp' = [sp EXCEPT ![p].pc = "ld_unlock",
                        ![p].got = IF ~Decodable(inodes[sp[p].fd]) THEN "undecodable"
                                   ELSE IF WellFormed(inodes[sp[p].fd]) THEN "data"
                                   ELSE "bad",
                        ![p].data = IF WellFormed(inodes[sp[p].fd])
                                    THEN Parse(inodes[sp[p].fd]) ELSE NoFile]
    /\ UNCHANGED <<platform, dir, inodes>>
    /\ UNCHANGED queryVars

(* self._unlock_file(f) on either path, the with block closes f; then
   return data, or except json.JSONDecodeError: self.delete_session(), or
   except Exception: return None *)
LoadUnlock(p) ==
    /\ sp[p].pc = "ld_unlock"
    /\ sp' = [sp EXCEPT ![p].lock = "none", ![p].fd = NoFile,
                        ![p].pc = IF sp[p].got = "bad" THEN "del_exists" ELSE "idle",
                        ![p].res = IF sp[p].got = "bad" THEN "none"
                                   ELSE IF sp[p].got = "undecodable" THEN "None"
                                   ELSE "data"]
    /\ inodes' = Reclaim(dir, sp', inodes)
    /\ UNCHANGED <<platform, dir>>
    /\ UNCHANGED queryVars

(***************************************************************************)
(* delete_session, called by the user or by load_session on a corrupt file *)
(***************************************************************************)
(* if self.session_file.exists(): *)
DeleteExists(p) ==
    /\ sp[p].pc = "del_exists"
    /\ sp' = [sp EXCEPT ![p].pc = IF dir[SiteOf(p)] = NoFile THEN "idle" ELSE "del_unlink",
                        ![p].res = IF dir[SiteOf(p)] = NoFile THEN "None" ELSE "none"]
    /\ UNCHANGED <<platform, dir, inodes>>
    /\ UNCHANGED queryVars

(* the file is open in another manager, on the platform where unlink()
   then fails with PermissionError (a sharing violation) *)
HeldOpen(p) ==
    /\ platform = "msvcrt"
    /\ dir[SiteOf(p)] # NoFile
    /\ \E q \in Procs \ {p} : sp[q].fd = dir[SiteOf(p)]

(* self.session_file.unlink(); except Exception: a FileNotFoundError or a
   PermissionError is logged, not raised, and the latter leaves the file *)
DeleteUnlink(p) ==
    /\ sp[p].pc = "del_unlink"
    /\ dir' = IF HeldOpen(p) THEN dir ELSE [dir EXCEPT ![SiteOf(p)] = NoFile]
    /\ sp' = [sp EXCEPT ![p].pc = "idle", ![p].res = "None"]
    /\ inodes' = Reclaim(dir', sp', inodes)
    /\ UNCHANGED platform
    /\ UNCHANGED queryVars

(***************************************************************************)
(* save_session                                                            *)
(***************************************************************************)
(* open(self.session_file, 'w'): O_CREAT | O_TRUNC, before any lock *)
SaveOpen(p) ==
    /\ sp[p].pc = "sv_open"
    /\ LET s == SiteOf(p)
           i == IF dir[s] = NoFile THEN FreshInode ELSE dir[s]
       IN  /\ dir' = [dir EXCEPT ![s] = i]
           /\ inodes' = [inodes EXCEPT ![i] = <<>>]
           /\ sp' = [sp EXCEPT ![p].fd = i, ![p].pc = "sv_lock"]
    /\ UNCHANGED platform
    /\ UNCHANGED queryVars

(* self._lock_file(f, exclusive=True) *)
SaveLock(p) ==
    /\ sp[p].pc = "sv_lock"
    /\ CanLock(p, LockKind(TRUE))
    /\ sp' = [sp EXCEPT ![p].lock = LockKind(TRUE), ![p].pc = "sv_dump"]
    /\ UNCHANGED <<platform, dir, inodes>>
    /\ UNCHANGED queryVars

(* json.dump(session_state, f, indent=2): the buffered writer passes every
   full buffer on to the file and keeps the last, partial one *)
SaveDump(p) ==
    /\ sp[p].pc = "sv_dump"
    /\ inodes' = [inodes EXCEPT ![sp[p].fd] =
                     WriteAt(@, 0, SubSeq(Serialize(sp[p].val), 1, TextLen(sp[p].val) - 1))]
    /\ sp' = [sp EXCEPT ![p].pc = "sv_unlock"]
    /\ UNCHANGED <<platform, dir>>
    /\ UNCHANGED queryVars

(* self._unlock_file(f) *)
SaveUnlock(p) ==
    /\ sp[p].pc = "sv_unlock"
    /\ sp' = [sp EXCEPT ![p].lock = "none", ![p].pc = "sv_close"]
    /\ UNCHANGED <<platform, dir, inodes>>
    /\ UNCHANGED queryVars

(* leaving the with block closes f, which flushes the kept buffer *)
SaveClose(p) ==
    /\ sp[p].pc = "sv_close"
    /\ LET v == sp[p].val
           flushed == [inodes EXCEPT ![sp[p].fd] =
                          WriteAt(@, TextLen(v) - 1, <<Serialize(v)[TextLen(v)]>>)]
       IN  /\ sp' = [sp EXCEPT ![p].fd = NoFile, ![p].pc = "idle", ![p].res = "saved"]
           /\ inodes' = Reclaim(dir, sp', flushed)
    /\ UNCHANGED <<platform, dir>>
    /\ UNCHANGED queryVars

(* one step of manager p *)
StoreStep(p) ==
    \/ StartLoad(p) \/ StartSave(p) \/ StartDelete(p)
    \/ LoadExists(p) \/ LoadOpen(p) \/ LoadLock(p) \/ LoadRead(p) \/ LoadUnlock(p)
    \/ DeleteExists(p) \/ DeleteUnlink(p)
    \/ SaveOpen(p) \/ SaveLock(p) \/ SaveDump(p) \/ SaveUnlock(p) \/ SaveClose(p)

StoreNext == \E p \in Procs : StoreStep(p)


(***************************************************************************)
(* One query: query_site (app.py) running GenericScraper (scraper.py).     *)
(*                                                                         *)
(* Texts (messages, urls, patterns, element texts) are sequences of        *)
(* tokens; an f-string is a concatenation and `x in y` a search for a      *)
(* contiguous run of tokens.                                               *)
(***************************************************************************)
RECURSIVE Strip(_)
(* str.strip(): leading and trailing blanks removed *)
Strip(t) ==
    IF t = <<>> THEN t
    ELSE IF Head(t) = " " THEN Strip(Tail(t))
    ELSE IF t[Len(t)] = " " THEN Strip(SubSeq(t, 1, Len(t) - 1))
    ELSE t

(* needle in hay *)
Contains(hay, needle) ==
    \E i \in 0..(Len(hay) - Len(needle)) :
        \A j \in 1..Len(needle) : hay[i + j] = needle[j]

(* str.lower(), token by token *)
Lower(t) ==
    [i \in 1..Len(t) |->
        CASE t[i] = "Login" -> "login"
          [] t[i] = "Dashboard" -> "dashboard"
          [] OTHER -> t[i]]

(* the words app.py looks for that a message token holds once lowered *)
WordsIn(tok) ==
    CASE tok = "Authentication failed: " -> {"authentication"}
      [] tok = "Login failed" -> {"login"}
      [] tok = "Login failed: " -> {"login"}
      [] tok = "Login failed - no success indicators matched" -> {"login"}
      [] tok = "Login timeout: " -> {"login"}
      [] tok = "Login error: " -> {"login"}
      [] tok = "No login_url configured" -> {"login"}
      [] tok = "Could not find email/username input field on login page" -> {"login"}
      [] tok = "Could not find password input field on login page" -> {"login"}
      [] tok = "Could not fill email field on Ionic login page" -> {"login"}
      [] tok = "Could not fill password field on Ionic login page" -> {"login"}
      [] tok = "please login" -> {"login"}
      [] tok = "wrong password" -> {}
      [] tok = "login" -> {"login"}
      [] tok = "Login" -> {"login"}
      [] tok = "Site configuration error: " -> {"configuration"}
      [] OTHER -> {}

(* word in str(e).lower() *)
HasWord(msg, w) == \E i \in 1..Len(msg) : w \in WordsIn(msg[i])

(***************************************************************************)
(* Query texts.  A text is a sequence of runs <<c, n>>: the character c     *)
(* repeated n times, c a blank or a letter.                                 *)
(***************************************************************************)
MaxQueryLength == 1000

MaxRuns == 2

RunLengths == {1, MaxQueryLength - 1, MaxQueryLength, MaxQueryLength + 1}

RECURSIVE QLen(_)
(* len(v) *)
QLen(t) == IF t = <<>> THEN 0 ELSE Head(t)[2] + QLen(Tail(t))

RECURSIVE QStrip(_)
(* v.strip() *)
QStrip(t) ==
    IF t = <<>> THEN t
    ELSE IF Head(t)[1] = " " THEN QStrip(Tail(t))
    ELSE IF t[Len(t)][1] = " " THEN QStrip(SubSeq(t, 1, Len(t) - 1))
    ELSE t

QueryTexts ==
    UNION {[1..n -> {" ", "a"} \X RunLengths] : n \in 0..MaxRuns}

(* the request of one call: through the HTTP API (QueryRequest) or the CLI;
   raw is the text as sent, query the text the handler works with *)
Requests == [entry : {"api", "cli"}, raw : QueryTexts, query : {<<>>}]

NoRequest == [entry |-> "none", raw |-> <<>>, query |-> <<>>]

(* POST /query/{site_id} with {"query": "hello"}, validated *)
Hello == [entry |-> "api", raw |-> <<<<"a", 1>>>>, query |-> <<<<"a", 1>>>>]

(***************************************************************************)
(* Time, for is_session_expired: seconds since some start.                 *)
(***************************************************************************)
(* self.config.get('session', {}).get('ttl_seconds', 3600) *)
DefaultTtl == 3600

MaxAdvances == 4

(* saved: when save_session last wrote the file; had, age, ans: whether the
   file existed at the last is_session_expired call, its age then, and the
   answer *)
NoClock == [now |-> 0, exists |-> FALSE, mtime |-> 0, saved |-> 0, ttl |-> DefaultTtl,
            n |-> 0, had |-> FALSE, age |-> 0, ans |-> "none"]

(* the auth section of a site config: auth.scenario (plugin format) and
   auth.type (legacy format), "absent" when the key is missing *)
AuthKinds == {"none", "simple_form", "form_based", "api_key", "oauth2"}

AuthConfigs == [scenario : AuthKinds \cup {"absent"}, type : AuthKinds \cup {"absent"}]

(* config: the auth section; creds: whether get_credentials finds any;
   cached: self._auth_strategy; ret: what the last _get_auth_strategy call
   returned or raised; n: calls made *)
NoAuth == [config |-> [scenario |-> "absent", type |-> "absent"], creds |-> FALSE,
           cached |-> "None", ret |-> "none", n |-> 0]

(* the ids a plugin directory or a legacy site file can have *)
PluginIds == {"emis", "example"}

(* disk: the ids with a valid plugins/<id>/config.yaml; legacy: the ids with
   a valid sites/<id>.yaml; loaded, plugins: PluginManager._loaded and
   _plugins ("absent", or the plugin's enabled flag "on"/"off"); cache:
   SiteConfigLoader._configs; last: the last enable/disable call made for
   the id since the plugins were loaded; op, id, ret, listed: the last call,
   its argument, what it returned or raised, and the keys of the last
   get_enabled_plugins() *)
NoPlugins ==
    [disk |-> {}, legacy |-> {}, loaded |-> FALSE,
     plugins |-> [i \in PluginIds |-> "absent"],
     cache |-> [i \in PluginIds |-> "none"],
     last |-> [i \in PluginIds |-> "none"],
     op |-> "none", id |-> "none", ret |-> "none", listed |-> {}]

(* scenario names as register() is handed them, and strategy classes *)
ScenarioNames == {"simple_form", "SIMPLE_FORM", "api_key"}

StrategyClasses == {"FormBasedAuth", "APIKeyAuth"}

MaxRegs == 4

(* strategies: AuthRegistry._strategies, "None" for a missing key; calls:
   the register calls made so far; op, arg, ret, listed: the last call, its
   argument, its answer, and the last list_scenarios() *)
NoRegistry ==
    [strategies |-> [s \in ScenarioNames |-> "None"], calls |-> <<>>,
     op |-> "none", arg |-> "none", ret |-> "none", listed |-> {}]

(***************************************************************************)
(* InteractionRegistry.handle_interactions, as _handle_interactions calls  *)
(* it (interactions/registry.py, core/scraper.py).                         *)
(***************************************************************************)
(* handler classes registered at most *)
MaxHandlers == 3

(* what priority() of a handler class answers: PopupHandler's, the default *)
Priorities == {10, 50}

(* reg: InteractionRegistry._handlers, each class by its priority, in the
   order of registration; handlers: the sorted instances; i: the loop's
   position; calls: the detect and handle calls made; results: the success
   flags collected; caught: _handle_interactions' except clause ran;
   ret: how _handle_interactions ended *)
NoInteraction ==
    [reg |-> <<>>, handlers |-> <<>>, i |-> 0, calls |-> <<>>, results |-> <<>>,
     caught |-> FALSE, pc |-> "off", ret |-> "none"]

(* get_handlers without its sort: the instances in registration order *)
Unsorted(hs) == hs

(* handlers.sort(key=lambda h: h.priority()): ascending, and stable *)
SortByPriority(hs) ==
    LET Before(j, k) ==
            \/ hs[j].priority < hs[k].priority
            \/ hs[j].priority = hs[k].priority /\ j < k
        Rank(k) == Cardinality({j \in DOMAIN hs : Before(j, k)}) + 1
    IN  [n \in DOMAIN hs |-> hs[CHOOSE k \in DOMAIN hs : Rank(k) = n]]

(***************************************************************************)
(* The API's HTTP middleware and its query routes (app.py).                *)
(***************************************************************************)
(* requests one service run receives *)
MaxRequests == 2

(* os.getenv("API_KEY"): unset, set to the empty string, or set *)
ApiKeys == {"None", "", "k1"}

(* request.url.path of the requests sent *)
Paths == {"/", "/sites", "/query", "/query/emis"}

(* API_KEY: the key configured for the service; path, header: the request
   at hand and its X-API-Key header ("None" when missing); pc: where the
   request stands; status: the status it was answered with; scraper: a
   GenericScraper was run for it; n: requests received *)
NoGate == [API_KEY |-> "None", path |-> "none", header |-> "None", pc |-> "idle",
           status |-> 0, scraper |-> FALSE, n |-> 0]

(* what a raising browser call says *)
ErrTexts == {<<"boom">>, <<"please login">>}

(***************************************************************************)
(* Site configurations (config_loader resolves them; the scraper reads     *)
(* them).  An indicator is a dict with type, pattern or selector, and      *)
(* extract_error.                                                          *)
(***************************************************************************)
UrlChange(pattern) ==
    [type |-> "url_change", pattern |-> pattern, selector |-> "", extract_error |-> FALSE]

ElementPresent(selector, extract) ==
    [type |-> "element_present", pattern |-> <<>>, selector |-> selector,
     extract_error |-> extract]

ElementAbsent(selector) ==
    [type |-> "element_absent", pattern |-> <<>>, selector |-> selector,
     extract_error |-> FALSE]

(* success_indicators when the site configures none (form_based.py) *)
DefaultSuccessIndicators == <<UrlChange(<<"!", "login">>)>>

FailureLists == {<<>>, <<ElementPresent(".error-message", TRUE)>>}

SuccessLists ==
    {DefaultSuccessIndicators,
     <<UrlChange(<<"!", "login">>), ElementPresent(".dashboard", FALSE)>>,
     <<ElementPresent(".dashboard", FALSE)>>}

StrategyLists ==
    {<<>>, <<"raw">>, <<"table">>, <<"table", "raw">>, <<"table", "content">>}

SearchKinds == {"absent", "plain", "plain_button", "ion_button"}

Configs ==
    {c \in [exists : BOOLEAN,
            name : {"Site"},
            auth : {"none", "form_based", "api_key"},
            creds : BOOLEAN,
            validation : {"full", "quick", "cookies_only"},
            search : SearchKinds,
            strategies : StrategyLists,
            failure_indicators : FailureLists,
            success_indicators : SuccessLists] :
        (* the kinds of search and the strategy lists vary on the sites
           without login, the indicators on the sites with form login *)
        /\ (c.auth # "form_based") =>
              (/\ c.failure_indicators = <<>>
               /\ c.success_indicators = DefaultSuccessIndicators)
        /\ ~c.creds => c.strategies = <<"table">>
        /\ (c.auth # "none") =>
              (c.strategies = <<"table">> /\ c.search \in {"absent", "plain"})
        /\ (c.auth = "api_key" \/ ~c.creds \/ ~c.exists) =>
              (/\ c.validation = "full" /\ c.search = "absent"
               /\ c.failure_indicators = <<>>
               /\ c.success_indicators = DefaultSuccessIndicators)
        /\ (c.validation # "full") =>
              (c.strategies = <<"table">> /\ c.search = "absent")
        /\ ~c.exists => (c.auth = "none" /\ c.strategies = <<"table">>)}

(* the pages a navigation can end on *)
Urls == {<<"https://site/", "Login">>, <<"https://site/", "Dashboard">>}

Selectors == {".error-message", ".dashboard"}

ElementTexts == {<<" ", "wrong password", " ">>}

(* url: where the page is; dom: the elements it holds; text: the inner text
   of its .error-message element; broken: query_selector raises on it *)
Pages ==
    {w \in [url : Urls, dom : SUBSET Selectors, text : ElementTexts \cup {<<>>},
            broken : BOOLEAN] :
        (w.text # <<>>) <=> (".error-message" \in w.dom)}

NoPage == [url |-> <<>>, dom |-> {}, text |-> <<>>, broken |-> FALSE]

Fields == {"page", "context", "browser", "playwright"}

(* login()'s locals: the loop it is in, the position in it, is_ionic, the
   values it has filled into the page, and the message of the
   LoginFailedException it raises *)
NoLogin == [phase |-> "none", i |-> 0, ionic |-> FALSE, msg |-> <<>>, typed |-> <<>>]

(* get_credentials(site_id): the values the environment holds for the site *)
Credentials ==
    [email |-> "test@example.com", password |-> "secret_password_123",
     api_key |-> "sk_live_abc123xyz789"]

(* a QueryResult: citation.source_name, len(raw_data), the extractor used *)
NoResult == [source_name |-> "", records |-> 0, extractor |-> "none"]

(* i: position in the strategy list; chosen: the selected extractor;
   refused: the extractors whose can_extract found nothing on the page *)
NoExtract == [i |-> 0, chosen |-> "none", refused |-> {}, result |-> NoResult]

(* hist: the steps of query() entered; late: one was entered after the
   timeout fired; saves: save_session calls made; scraped: the error text
   login() read off the page; cleanup: cleanup() ran; tried: the resources
   it tried to close *)
NoLog == [hist |-> {}, late |-> FALSE, tried |-> {}, saves |-> 0, scraped |-> <<>>,
          cleanup |-> FALSE]

NoOut == [kind |-> "none", msg |-> <<>>, status |-> 0, result |-> NoResult]

QueryInit ==
    /\ cfg \in Configs
    /\ pc = "resolve"
    /\ timer = "off"
    /\ self = [f \in Fields |-> "None"]
    /\ file \in {"absent", "expired", "fresh", "corrupt"}
    /\ web = NoPage
    /\ lg = NoLogin
    /\ ex = NoExtract
    /\ log = NoLog
    /\ out = NoOut
    /\ req = Hello
    /\ tm = NoClock
    /\ authState = NoAuth
    /\ gate = NoGate
    /\ ia = NoInteraction
    /\ registry = NoRegistry
    /\ plug = NoPlugins
    (* the session store is not looked into *)
    /\ platform = "fcntl"
    /\ dir = [s \in Sites |-> NoFile]
    /\ inodes = [i \in Inodes |-> <<>>]
    /\ sp = [p \in Procs |-> Idle]

(***************************************************************************)
(* Helpers of the query's steps.                                           *)
(***************************************************************************)
(* the ways an awaited call can end: as the step lists, or, while
   wait_for's timeout is pending, with the task cancelled there *)
Outcomes(S) == S \cup (IF timer = "armed" THEN {"cancel"} ELSE {})

TimerAfter(o) == IF o = "cancel" THEN "fired" ELSE timer

(* step `tag` of the query runs *)
Mark(tag) ==
    [log EXCEPT !.hist = @ \cup {tag}, !.late = @ \/ timer = "fired"]

(* query() ends by raising ScraperException(msg) *)
Raised(msg) == [NoOut EXCEPT !.kind = "ScraperException", !.msg = msg]

(* a query() without its except Exception clause: e leaves as it is *)
Unwrapped(e) == [NoOut EXCEPT !.kind = "Exception", !.msg = e]

(* except Exception as e: raise ScraperException(f"Query execution failed: {e}") *)
Wrapped(e) == Raised(<<"Query execution failed: ">> \o e)

(* the CancelledError leaves query() and wait_for raises TimeoutError *)
TimedOut == [NoOut EXCEPT !.kind = "TimeoutError"]

(* the session directory as the managers find it: each site's file absent
   or holding one complete record; which locking module the platform has *)
StoreInit ==
    /\ platform \in {"fcntl", "msvcrt", "none"}
    /\ \E present \in SUBSET Sites, v \in [Sites -> Values] :
          /\ dir = [s \in Sites |-> IF s \in present THEN s ELSE NoFile]
          /\ inodes = [i \in Inodes |->
                          IF i \in present THEN Serialize(v[i]) ELSE <<>>]
    /\ sp = [p \in Procs |-> Idle]
    (* no query runs *)
    /\ cfg = [exists |-> FALSE] /\ pc = "off" /\ timer = "off"
    /\ self = [f \in Fields |-> "None"] /\ file = "absent" /\ web = NoPage
    /\ lg = NoLogin /\ ex = NoExtract /\ log = NoLog /\ out = NoOut
    /\ req = NoRequest
    /\ tm = NoClock
    /\ authState = NoAuth
    /\ gate = NoGate
    /\ ia = NoInteraction
    /\ registry = NoRegistry
    /\ plug = NoPlugins

(* the session store alone: no query runs *)
SpecStore == StoreInit /\ [][StoreNext]_vars

(* what a session file can hold when a manager comes to it: nothing, one
   complete record, a record cut short, or bytes that do not decode *)
FoundTexts ==
    {<<>>, <<BadByte>>, <<<<NumValues, 1>>, BadByte>>}
        \cup {Serialize(v) : v \in Values}
        \cup {SubSeq(Serialize(v), 1, TextLen(v) - 1) : v \in Values}

(* the managers of the first site *)
SharedProcs == {p \in Procs : SiteOf(p) = SiteOf(NumProcs)}

(* the first site's file absent or present with any of these texts *)
FoundInit ==
    /\ platform \in {"fcntl", "msvcrt", "none"}
    /\ \E present \in BOOLEAN, c \in FoundTexts :
          /\ dir = [s \in Sites |->
                       IF present /\ s = SiteOf(NumProcs) THEN s ELSE NoFile]
          /\ inodes = [i \in Inodes |->
                          IF present /\ i = SiteOf(NumProcs) THEN c ELSE <<>>]
    /\ sp = [p \in Procs |-> Idle]
    /\ cfg = [exists |-> FALSE] /\ pc = "off" /\ timer = "off"
    /\ self = [f \in Fields |-> "None"] /\ file = "absent" /\ web = NoPage
    /\ lg = NoLogin /\ ex = NoExtract /\ log = NoLog /\ out = NoOut
    /\ req = NoRequest
    /\ tm = NoClock
    /\ authState = NoAuth
    /\ gate = NoGate
    /\ ia = NoInteraction
    /\ registry = NoRegistry
    /\ plug = NoPlugins

FoundNext == \E p \in SharedProcs : StoreStep(p)

(* the managers of one site over a file found in any condition *)
SpecFound == FoundInit /\ [][FoundNext]_vars

(* the five variables every step of the query sets *)
Step(npc, nout, nlog, ntimer, nself) ==
    /\ pc' = npc /\ out' = nout /\ log' = nlog /\ timer' = ntimer /\ self' = nself

(* query() ends with outcome o: the async with block is left *)
End(o, ntimer) == Step("aexit", o, log, ntimer, self)

Keep == UNCHANGED <<cfg, req, tm, authState, gate, ia, registry, plug, storeVars>>

(* a query_site that does not look the site up first *)
ResolveUnchecked ==
    /\ pc = "resolve"
    /\ Step("init_browser", out, log, timer, self)
    /\ UNCHANGED <<file, web, lg, ex>> /\ Keep

(***************************************************************************)
(* query_site, before the query runs                                       *)
(***************************************************************************)
(* config_loader.load_site(site_id); ConfigurationException -> 404 *)
Resolve ==
    /\ pc = "resolve"
    /\ IF cfg.exists
       THEN Step("init_browser", out, log, timer, self)
       ELSE Step("done",
                 [NoOut EXCEPT !.kind = "HTTPException", !.status = 404,
                               !.msg = <<"Site not found">>],
                 log, timer, self)
    /\ UNCHANGED <<file, web, lg, ex>> /\ Keep

(* __aenter__ -> _init_browser: start playwright, launch chromium; on an
   exception cleanup() and raise ScraperException *)
InitBrowser ==
    /\ pc = "init_browser"
    /\ \E o \in {"ok", "start_raises", "launch_raises"}, e \in ErrTexts :
          LET s == [self EXCEPT !.playwright = IF o = "start_raises" THEN "None" ELSE "set",
                                !.browser = IF o = "ok" THEN "set" ELSE "None"]
          IN  IF o = "ok"
              THEN Step("wait_for", out, log, timer, s)
              ELSE Step("cleanup_page",
                        Raised(<<"Browser initialization failed: ">> \o e),
                        log, timer, s)
    /\ UNCHANGED <<file, web, lg, ex>> /\ Keep

(* asyncio.wait_for(scraper.query(request.query), timeout=120.0); query()
   finds self.browser set *)
WaitFor ==
    /\ pc = "wait_for"
    /\ Step("v_expired", out, log, "armed", self)
    /\ UNCHANGED <<file, web, lg, ex>> /\ Keep

(***************************************************************************)
(* _validate_session                                                       *)
(***************************************************************************)
(* a _validate_session without the TTL check: the record is always loaded *)
VExpiredLoads ==
    /\ pc = "v_expired"
    /\ Step("v_load", out, Mark("validate"), timer, self)
    /\ UNCHANGED <<file, web, lg, ex>> /\ Keep

(* if self.session_manager.is_session_expired(): return False *)
VExpired ==
    /\ pc = "v_expired"
    /\ Step(IF file \in {"absent", "expired"} THEN "login" ELSE "v_load",
            out, Mark("validate"), timer, self)
    /\ UNCHANGED <<file, web, lg, ex>> /\ Keep

(* session_data = load_session(); a corrupt file is deleted and None returned *)
VLoad ==
    /\ pc = "v_load"
    /\ Step(IF file = "fresh" THEN "v_context" ELSE "login",
            out, Mark("load_session"), timer, self)
    /\ file' = IF file = "corrupt" THEN "absent" ELSE file
    /\ UNCHANGED <<web, lg, ex>> /\ Keep

(* self.context = await self._create_context(session_data) *)
VContext ==
    /\ pc = "v_context"
    /\ \E o \in Outcomes({"ok", "raises"}) :
          CASE o = "ok" ->
                  Step(IF cfg.validation \in {"quick", "cookies_only"}
                       THEN "v_quick" ELSE "v_page",
                       out, log, timer, [self EXCEPT !.context = "set"])
            [] o = "raises" -> Step("v_exc_close", out, log, timer, self)
            [] o = "cancel" -> End(TimedOut, "fired")
    /\ UNCHANGED <<file, web, lg, ex>> /\ Keep

(* a _validate_session in which a failed cookie check always falls through
   to the full validation, whatever the method *)
VQuickFallsThrough ==
    /\ pc = "v_quick"
    /\ \E o \in Outcomes({"true", "false"}) :
          CASE o = "true" -> Step("v_quick_page", out, log, timer, self)
            [] o = "false" -> Step("v_page", out, log, timer, self)
            [] o = "cancel" -> End(TimedOut, "fired")
    /\ UNCHANGED <<file, web, lg, ex>> /\ Keep

(* await self._quick_session_check(self.context): cookies, or False on error *)
VQuick ==
    /\ pc = "v_quick"
    /\ \E o \in Outcomes({"true", "false"}) :
          CASE o = "true" -> Step("v_quick_page", out, log, timer, self)
            [] o = "false" ->
                  Step(IF cfg.validation = "cookies_only" THEN "v_close" ELSE "v_page",
                       out, log, timer, self)
            [] o = "cancel" -> End(TimedOut, "fired")
    /\ UNCHANGED <<file, web, lg, ex>> /\ Keep

(* self.page = await self.context.new_page(); return True *)
VQuickPage ==
    /\ pc = "v_quick_page"
    /\ \E o \in Outcomes({"ok", "raises"}) :
          CASE o = "ok" -> Step("search", out, log, timer, [self EXCEPT !.page = "set"])
            [] o = "raises" -> Step("v_exc_close", out, log, timer, self)
            [] o = "cancel" -> End(TimedOut, "fired")
    /\ UNCHANGED <<file, web, lg, ex>> /\ Keep

(* cookies_only failed: await self.context.close(); self.context = None *)
VClose ==
    /\ pc = "v_close"
    /\ \E o \in Outcomes({"ok", "raises"}) :
          CASE o = "ok" -> Step("login", out, log, timer, [self EXCEPT !.context = "None"])
            [] o = "raises" -> Step("v_exc_close", out, log, timer, self)
            [] o = "cancel" -> End(TimedOut, "fired")
    /\ UNCHANGED <<file, web, lg, ex>> /\ Keep

(* full validation: self.page = await self.context.new_page() *)
VPage ==
    /\ pc = "v_page"
    /\ \E o \in Outcomes({"ok", "raises"}) :
          CASE o = "ok" -> Step("v_goto", out, log, timer, [self EXCEPT !.page = "set"])
            [] o = "raises" -> Step("v_exc_close", out, log, timer, self)
            [] o = "cancel" -> End(TimedOut, "fired")
    /\ UNCHANGED <<file, web, lg, ex>> /\ Keep

(* await self.page.goto(base_url, ...); await asyncio.sleep(...) *)
VGoto ==
    /\ pc = "v_goto"
    /\ \E o \in Outcomes({"ok", "raises"}) :
          CASE o = "ok" ->
                  /\ Step("v_strategy", out, log, timer, self)
                  /\ web' \in Pages
            [] o = "raises" ->
                  /\ Step("v_exc_close", out, log, timer, self)
                  /\ web' = web
            [] o = "cancel" -> End(TimedOut, "fired") /\ web' = web
    /\ UNCHANGED <<file, lg, ex>> /\ Keep

(* auth_strategy = self._get_auth_strategy(); None means valid; an
   unsupported type raises inside the try *)
VStrategy ==
    /\ pc = "v_strategy"
    /\ CASE cfg.auth = "none" ->
               Step("search", out, log, timer, self) /\ lg' = lg
         [] cfg.auth = "form_based" ->
               /\ Step("check", out, log, timer, self)
               /\ lg' = [NoLogin EXCEPT !.phase = "validate", !.i = 1]
         [] OTHER -> Step("v_exc_close", out, log, timer, self) /\ lg' = lg
    /\ UNCHANGED <<file, web, ex>> /\ Keep

(* validate_session said no: close the context, forget context and page *)
VFailClose ==
    /\ pc = "v_fail_close"
    /\ \E o \in Outcomes({"ok", "raises"}) :
          CASE o = "ok" ->
                  Step("login", out, log, timer,
                       [self EXCEPT !.context = "None", !.page = "None"])
            [] o = "raises" -> Step("v_exc_close", out, log, timer, self)
            [] o = "cancel" -> End(TimedOut, "fired")
    /\ UNCHANGED <<file, web, lg, ex>> /\ Keep

(* except Exception: if self.context: await self.context.close(); ...;
   return False.  An exception of this close leaves _validate_session. *)
VExcClose ==
    /\ pc = "v_exc_close"
    /\ IF self.context = "None"
       THEN Step("login", out, log, timer, self)
       ELSE \E o \in Outcomes({"ok", "raises"}), e \in ErrTexts :
               CASE o = "ok" ->
                       Step("login", out, log, timer,
                            [self EXCEPT !.context = "None", !.page = "None"])
                 [] o = "raises" -> End(Wrapped(e), timer)
                 [] o = "cancel" -> End(TimedOut, "fired")
    /\ UNCHANGED <<file, web, lg, ex>> /\ Keep

(***************************************************************************)
(* _login                                                                  *)
(***************************************************************************)
(* auth_strategy = self._get_auth_strategy(); if not auth_strategy: return *)
LoginStart ==
    /\ pc = "login"
    /\ CASE cfg.auth = "none" -> Step("search", out, Mark("login"), timer, self)
         [] cfg.auth = "form_based" ->
               Step(IF self.context = "None" THEN "l_context" ELSE "l_interact",
                    out, Mark("login"), timer, self)
         [] OTHER ->
               Step("aexit", Raised(<<"Unsupported auth type: ", cfg.auth>>),
                    Mark("login"), timer, self)
    /\ UNCHANGED <<file, web, lg, ex>> /\ Keep

(* self.context = await self._create_context();
   self.page = await self.context.new_page()      (outside the try) *)
LContext ==
    /\ pc = "l_context"
    /\ \E o \in Outcomes({"ok", "context_raises", "page_raises"}), e \in ErrTexts :
          CASE o = "ok" ->
                  Step("l_interact", out, log, timer,
                       [self EXCEPT !.context = "set", !.page = "set"])
            [] o = "context_raises" -> End(Wrapped(e), timer)
            [] o = "page_raises" ->
                  Step("aexit", Wrapped(e), log, timer, [self EXCEPT !.context = "set"])
            [] o = "cancel" -> End(TimedOut, "fired")
    /\ UNCHANGED <<file, web, lg, ex>> /\ Keep

(* await self._handle_interactions(self.page): never raises an Exception *)
LInteract ==
    /\ pc = "l_interact"
    /\ \E o \in Outcomes({"ok"}) :
          CASE o = "ok" -> Step("lg_start", out, log, timer, self)
            [] o = "cancel" -> End(TimedOut, "fired")
    /\ UNCHANGED <<file, web, lg, ex>> /\ Keep

(* a _login that does not save the session login() established *)
LoginReturnedUnsaved ==
    /\ pc = "lg_returned"
    /\ Step("search", out, log, timer, self)
    /\ lg' = NoLogin
    /\ UNCHANGED <<file, web, ex>> /\ Keep

(* await auth_strategy.login(...) returned: save the session next *)
LoginReturned ==
    /\ pc = "lg_returned"
    /\ Step("l_save", out, log, timer, self)
    /\ lg' = NoLogin
    /\ UNCHANGED <<file, web, ex>> /\ Keep

(* a _login that goes on to the search when login() raises *)
LoginRaisedIgnored ==
    /\ pc = "lg_raised"
    /\ Step("search", out, Mark("login_failed"), timer, self)
    /\ UNCHANGED <<file, web, lg, ex>> /\ Keep

(* a _login that starts over when login() raises *)
LoginRaisedRetried ==
    /\ pc = "lg_raised"
    /\ Step("login", out, Mark("login_failed"), timer, self)
    /\ UNCHANGED <<file, web, lg, ex>> /\ Keep

(* except LoginFailedException as e:
       raise ScraperException(f"Authentication failed: {str(e)}") *)
LoginRaised ==
    /\ pc = "lg_raised"
    /\ Step("aexit", Raised(<<"Authentication failed: ">> \o lg.msg),
            Mark("login_failed"), timer, self)
    /\ UNCHANGED <<file, web, lg, ex>> /\ Keep

(* the CancelledError login() let through passes _login and query() *)
LoginCancelled ==
    /\ pc = "lg_cancelled"
    /\ End(TimedOut, timer)
    /\ UNCHANGED <<file, web, lg, ex>> /\ Keep

(* await self.session_manager.save_session(self.context) after the login *)
LSave ==
    /\ pc = "l_save"
    /\ \E o \in Outcomes({"ok", "raises"}), e \in ErrTexts :
          CASE o = "ok" ->
                  /\ Step("search", out,
                          [Mark("save_session") EXCEPT !.saves = @ + 1], timer, self)
                  /\ file' = "fresh"
            [] o = "raises" -> End(Wrapped(e), timer) /\ file' = file
            [] o = "cancel" -> End(TimedOut, "fired") /\ file' = file
    /\ UNCHANGED <<web, lg, ex>> /\ Keep

(***************************************************************************)
(* FormBasedAuth (auth/strategies/form_based.py)                           *)
(***************************************************************************)
(* _check_indicator on page w, when query_selector answers (raises = FALSE)
   or raises (raises = TRUE, also a CancelledError: the except is bare) *)
_check_indicator(w, indicator, raises) ==
    CASE indicator.type = "url_change" ->
            IF indicator.pattern # <<>> /\ Head(indicator.pattern) = "!"
            THEN ~Contains(Lower(w.url), Tail(indicator.pattern))
            ELSE Contains(Lower(w.url), indicator.pattern)
      [] indicator.type = "element_present" ->
            IF indicator.selector = "" THEN FALSE
            ELSE IF raises THEN FALSE
            ELSE indicator.selector \in w.dom
      [] indicator.type = "element_absent" ->
            IF indicator.selector = "" THEN FALSE
            ELSE IF raises THEN TRUE
            ELSE indicator.selector \notin w.dom
      [] OTHER -> FALSE

(* the indicator awaits page.query_selector *)
Awaits(indicator) ==
    indicator.type \in {"element_present", "element_absent"} /\ indicator.selector # ""

(* a login() that looks at the success indicators first *)
IndicatorsSuccessFirst ==
    IF lg.phase = "failure" THEN cfg.success_indicators ELSE cfg.failure_indicators

(* the list the loop at hand walks *)
Indicators ==
    IF lg.phase = "failure" THEN cfg.failure_indicators ELSE cfg.success_indicators

(* a login() that raises the bare "Login failed" whatever it read *)
LoginFailsPlain(msg) == [lg EXCEPT !.msg = <<"Login failed">>]

(* a login() whose exception repeats what it filled into the form *)
LoginFailsEchoing(msg) == [lg EXCEPT !.msg = msg \o lg.typed]

(* LoginFailedException(msg) leaves login() *)
LoginFails(msg) == [lg EXCEPT !.msg = msg]

(* credentials and login_url are checked before anything is awaited *)
LgStart ==
    /\ pc = "lg_start"
    /\ IF cfg.creds
       THEN pc' = "lg_goto" /\ lg' = NoLogin
       ELSE /\ pc' = "lg_raised"
            /\ lg' = [NoLogin EXCEPT
                         !.msg = <<"Missing email/username or password in credentials">>]
    /\ UNCHANGED <<out, log, timer, self, file, web, ex>> /\ Keep

(* page.goto(login_url), the delay, wait_for_load_state("domcontentloaded") *)
LgGoto ==
    /\ pc = "lg_goto"
    /\ \E o \in Outcomes({"ok", "timeout", "raises"}), e \in ErrTexts :
          /\ timer' = TimerAfter(o)
          /\ CASE o = "ok" -> pc' = "lg_ionic" /\ lg' = lg
               [] o = "timeout" ->
                     pc' = "lg_raised" /\ lg' = LoginFails(<<"Login timeout: ">> \o e)
               [] o = "raises" ->
                     pc' = "lg_raised" /\ lg' = LoginFails(<<"Login error: ">> \o e)
               [] o = "cancel" -> pc' = "lg_cancelled" /\ lg' = lg
    /\ UNCHANGED <<out, log, self, file, web, ex>> /\ Keep

(* is_ionic = await self._is_ionic_page(page): evaluate under a bare except *)
LgIonic ==
    /\ pc = "lg_ionic"
    /\ \E o \in Outcomes({"true", "false"}) :
          /\ timer' = TimerAfter(o)
          /\ pc' = "lg_settle"
          /\ lg' = [lg EXCEPT !.ionic = (o = "true")]
    /\ UNCHANGED <<out, log, self, file, web, ex>> /\ Keep

(* _wait_for_ionic_hydration (a Playwright timeout is swallowed, another
   error is not) or asyncio.sleep(2); then handle_interactions under
   except Exception *)
LgSettle ==
    /\ pc = "lg_settle"
    /\ \E o \in Outcomes(IF lg.ionic THEN {"ok", "raises"} ELSE {"ok"}), e \in ErrTexts :
          /\ timer' = TimerAfter(o)
          /\ CASE o = "ok" -> pc' = "lg_email" /\ lg' = lg
               [] o = "raises" ->
                     pc' = "lg_raised" /\ lg' = LoginFails(<<"Login error: ">> \o e)
               [] o = "cancel" -> pc' = "lg_cancelled" /\ lg' = lg
    /\ UNCHANGED <<out, log, self, file, web, ex>> /\ Keep

(* fill the email field.  Ionic: _fill_ionic_input, which catches Exception
   and reports failure.  Otherwise each selector, on the page and then in
   its frames, is tried under a bare except: a failure, and a cancellation,
   moves on to the next try. *)
LgEmail ==
    /\ pc = "lg_email"
    /\ \E o \in Outcomes({"filled", "missing"})
                \cup (IF timer = "armed" /\ ~lg.ionic THEN {"swallowed"} ELSE {}) :
          /\ timer' = IF o = "swallowed" THEN "fired" ELSE TimerAfter(o)
          /\ CASE o = "filled" ->
                     /\ pc' = "lg_password"
                     /\ lg' = [lg EXCEPT !.typed = Append(@, Credentials.email)]
               [] o = "missing" ->
                     /\ pc' = "lg_raised"
                     /\ lg' = LoginFails(
                           IF lg.ionic
                           THEN <<"Could not fill email field on Ionic login page">>
                           ELSE <<"Could not find email/username input field on login page">>)
               [] o = "swallowed" -> pc' = "lg_email" /\ lg' = lg
               [] o = "cancel" ->
                     (* Ionic: the evaluate call; otherwise no await lets it out *)
                     IF lg.ionic THEN pc' = "lg_cancelled" /\ lg' = lg
                     ELSE pc' = "lg_email" /\ lg' = lg
    /\ UNCHANGED <<out, log, self, file, web, ex>> /\ Keep

(* the delay, then the password field, filled the same way *)
LgPassword ==
    /\ pc = "lg_password"
    /\ \E o \in Outcomes({"filled", "missing"})
                \cup (IF timer = "armed" /\ ~lg.ionic THEN {"swallowed"} ELSE {}) :
          /\ timer' = IF o = "swallowed" THEN "fired" ELSE TimerAfter(o)
          /\ CASE o = "filled" ->
                     /\ pc' = "lg_submit"
                     /\ lg' = [lg EXCEPT !.typed = Append(@, Credentials.password)]
               [] o = "missing" ->
                     /\ pc' = "lg_raised"
                     /\ lg' = LoginFails(
                           IF lg.ionic
                           THEN <<"Could not fill password field on Ionic login page">>
                           ELSE <<"Could not find password input field on login page">>)
               [] o = "swallowed" -> pc' = "lg_password" /\ lg' = lg
               [] o = "cancel" -> pc' = "lg_cancelled" /\ lg' = lg
    /\ UNCHANGED <<out, log, self, file, web, ex>> /\ Keep

(* the delay; the submit button (Ionic: a click that reports failure, then
   the Enter key; otherwise each selector under a bare except, then Enter);
   the delay; wait_for_load_state("networkidle").  The page the form leads
   to is then shown. *)
LgSubmit ==
    /\ pc = "lg_submit"
    /\ \E o \in Outcomes({"ok", "timeout", "raises"})
                \cup (IF timer = "armed" /\ ~lg.ionic THEN {"swallowed"} ELSE {}),
          e \in ErrTexts :
          /\ timer' = IF o = "swallowed" THEN "fired" ELSE TimerAfter(o)
          /\ CASE o = "ok" ->
                     /\ pc' = "check"
                     /\ lg' = [lg EXCEPT !.phase = "failure", !.i = 1]
                     /\ web' \in Pages
               [] o = "timeout" ->
                     /\ pc' = "lg_raised" /\ web' = web
                     /\ lg' = LoginFails(<<"Login timeout: ">> \o e)
               [] o = "raises" ->
                     /\ pc' = "lg_raised" /\ web' = web
                     /\ lg' = LoginFails(<<"Login error: ">> \o e)
               [] o = "swallowed" -> pc' = "lg_submit" /\ lg' = lg /\ web' = web
               [] o = "cancel" -> pc' = "lg_cancelled" /\ lg' = lg /\ web' = web
    /\ UNCHANGED <<out, log, self, file, ex>> /\ Keep

(* one turn of `for indicator in ...: if await self._check_indicator(...)`,
   in login() over the failure indicators and then the success indicators,
   in validate_session() over the success indicators.  query_selector
   answers, raises, or is where the timeout cancels the task. *)
Check ==
    /\ pc = "check"
    /\ lg.i <= Len(Indicators)
    /\ LET ind == Indicators[lg.i] IN
       \E o \in {"answers"} \cup (IF Awaits(ind) THEN Outcomes({}) ELSE {}) :
          LET hit == _check_indicator(web, ind, web.broken \/ o = "cancel") IN
          /\ timer' = TimerAfter(o)
          /\ CASE ~hit -> pc' = "check" /\ lg' = [lg EXCEPT !.i = @ + 1]
               [] hit /\ lg.phase = "failure" ->
                     IF ind.extract_error
                     THEN pc' = "lg_extract" /\ lg' = lg
                     ELSE pc' = "lg_raised" /\ lg' = LoginFails(<<"Login failed">>)
               [] hit /\ lg.phase = "success" -> pc' = "lg_returned" /\ lg' = lg
               [] hit /\ lg.phase = "validate" -> pc' = "search" /\ lg' = NoLogin
    /\ UNCHANGED <<out, log, self, file, web, ex>> /\ Keep

(* the list is exhausted: on to the success indicators, or
   raise LoginFailedException("Login failed - no success indicators matched"),
   or validate_session returns False *)
CheckDone ==
    /\ pc = "check"
    /\ lg.i > Len(Indicators)
    /\ CASE lg.phase = "failure" ->
               pc' = "check" /\ lg' = [lg EXCEPT !.phase = "success", !.i = 1]
         [] lg.phase = "success" ->
               /\ pc' = "lg_raised"
               /\ lg' = LoginFails(<<"Login failed - no success indicators matched">>)
         [] lg.phase = "validate" -> pc' = "v_fail_close" /\ lg' = lg
    /\ UNCHANGED <<out, log, timer, self, file, web, ex>> /\ Keep

(* if indicator.get('extract_error'): query_selector(indicator['selector']),
   inner_text(), error_msg = f"Login failed: {error_text.strip()}", all
   under a bare except; then raise LoginFailedException(error_msg) *)
LgExtract ==
    /\ pc = "lg_extract"
    /\ LET ind == Indicators[lg.i] IN
       \E o \in Outcomes({"answers"}) :
          LET found == /\ o = "answers" /\ ~web.broken
                       /\ ind.selector \in web.dom IN
          /\ timer' = TimerAfter(o)
          /\ pc' = "lg_raised"
          /\ lg' = IF found
                   THEN LoginFails(<<"Login failed: ">> \o Strip(web.text))
                   ELSE LoginFails(<<"Login failed">>)
          /\ log' = IF found THEN [log EXCEPT !.scraped = web.text] ELSE log
    /\ UNCHANGED <<out, self, file, web, ex>> /\ Keep

(***************************************************************************)
(* _perform_search                                                         *)
(***************************************************************************)
(* no search configuration: stay on the current page *)
Search ==
    /\ pc = "search"
    /\ Step(IF cfg.search = "absent" THEN "extract" ELSE "s_goto",
            out, Mark("search"), timer, self)
    /\ UNCHANGED <<file, web, lg, ex>> /\ Keep

(* a _perform_search without its except clause: the failure leaves it *)
SGotoFatal ==
    /\ pc = "s_goto"
    /\ IF self.page = "None"
       THEN End(Wrapped(<<"boom">>), timer)
       ELSE \E o \in Outcomes({"ok", "raises"}) :
               CASE o = "ok" -> Step("s_wait", out, log, timer, self)
                 [] o = "raises" -> End(Wrapped(<<"boom">>), timer)
                 [] o = "cancel" -> End(TimedOut, "fired")
    /\ UNCHANGED <<file, web, lg, ex>> /\ Keep

(* self.page.goto(search_url), the delay, _handle_interactions; an
   Exception (self.page is None included) ends the search, not the query *)
SGoto ==
    /\ pc = "s_goto"
    /\ IF self.page = "None"
       THEN Step("extract", out, log, timer, self)
       ELSE \E o \in Outcomes({"ok", "raises"}) :
               CASE o = "ok" -> Step("s_wait", out, log, timer, self)
                 [] o = "raises" -> Step("extract", out, log, timer, self)
                 [] o = "cancel" -> End(TimedOut, "fired")
    /\ UNCHANGED <<file, web, lg, ex>> /\ Keep

(* try: await self.page.wait_for_selector(...)  except: (bare) *)
SWait ==
    /\ pc = "s_wait"
    /\ \E o \in Outcomes({"ok", "raises"}) :
          Step("s_fill", out, log, TimerAfter(o), self)
    /\ UNCHANGED <<file, web, lg, ex>> /\ Keep

(* 'ion-' in the selector: _fill_ionic_search, which reports an Exception
   as False; otherwise page.fill *)
SFill ==
    /\ pc = "s_fill"
    /\ \E o \in Outcomes(IF cfg.search = "ion_button"
                         THEN {"filled", "not_filled"} ELSE {"filled", "raises"}) :
          CASE o = "filled" -> Step("s_click", out, log, timer, self)
            [] o = "not_filled" -> Step("s_fallback", out, log, timer, self)
            [] o = "raises" -> Step("extract", out, log, timer, self)
            [] o = "cancel" -> End(TimedOut, "fired")
    /\ UNCHANGED <<file, web, lg, ex>> /\ Keep

(* try: await self.page.fill(...)  except: (bare) *)
SFallback ==
    /\ pc = "s_fallback"
    /\ \E o \in Outcomes({"ok", "raises"}) :
          Step("s_click", out, log, TimerAfter(o), self)
    /\ UNCHANGED <<file, web, lg, ex>> /\ Keep

(* the delay; with a search button: click, delay, wait_for_load_state *)
SClick ==
    /\ pc = "s_click"
    /\ \E o \in Outcomes(IF cfg.search = "plain" THEN {"ok"} ELSE {"ok", "raises"}) :
          CASE o \in {"ok", "raises"} -> Step("extract", out, log, timer, self)
            [] o = "cancel" -> End(TimedOut, "fired")
    /\ UNCHANGED <<file, web, lg, ex>> /\ Keep

(***************************************************************************)
(* _extract_data and ExtractorRegistry.select_extractor                    *)
(***************************************************************************)
(* the extractors the package registers when it is imported:
   extractors/__init__.py imports table and content *)
Registered == {"table", "content"}

(* if not strategies: raise ScraperException(...) *)
Extract ==
    /\ pc = "extract"
    /\ IF cfg.strategies = <<>>
       THEN /\ Step("aexit", Raised(<<"No extraction strategies configured">>),
                    Mark("extract"), timer, self)
            /\ ex' = ex
       ELSE /\ Step("e_select", out, Mark("extract"), timer, self)
            /\ ex' = [NoExtract EXCEPT !.i = 1]
    /\ UNCHANGED <<file, web, lg>> /\ Keep

(* one turn of `for strategy in strategies`: get_extractor raises ValueError
   on an unregistered type and the loop continues; can_extract of table and
   content query the page under a bare except, raw answers True *)
ESelect ==
    /\ pc = "e_select"
    /\ ex.i <= Len(cfg.strategies)
    /\ LET t == cfg.strategies[ex.i] IN
       IF t \notin Registered
       THEN Step("e_select", out, log, timer, self) /\ ex' = [ex EXCEPT !.i = @ + 1]
       ELSE IF t = "raw"
       THEN Step("e_extract", out, log, timer, self) /\ ex' = [ex EXCEPT !.chosen = t]
       ELSE IF self.page = "None"
       THEN Step("e_select", out, log, timer, self) /\ ex' = [ex EXCEPT !.i = @ + 1]
       ELSE \E o \in Outcomes({"found", "nothing", "raises"}) :
               /\ Step(IF o = "found" THEN "e_extract" ELSE "e_select",
                       out, log, TimerAfter(o), self)
               /\ ex' = CASE o = "found" -> [ex EXCEPT !.chosen = t]
                          [] o = "nothing" ->
                                [ex EXCEPT !.i = @ + 1, !.refused = @ \cup {t}]
                          [] OTHER -> [ex EXCEPT !.i = @ + 1]
    /\ UNCHANGED <<file, web, lg>> /\ Keep

(* raise ValueError("No suitable extractor found for this page"), which
   _extract_data turns into ScraperException("Data extraction failed: ...") *)
ESelectNone ==
    /\ pc = "e_select"
    /\ ex.i > Len(cfg.strategies)
    /\ End(Raised(<<"Data extraction failed: ",
                    "No suitable extractor found for this page">>), timer)
    /\ UNCHANGED <<file, web, lg, ex>> /\ Keep

(* an _extract_data that goes on to the next strategy when the chosen
   extractor's extract raises or finds no record *)
EExtractFallsBack ==
    /\ pc = "e_extract"
    /\ \E o \in (IF self.page = "None" THEN {"raises"}
                 ELSE Outcomes({"records", "raises"})),
          n \in IF ex.chosen = "raw" THEN {1} ELSE 0..2 :
          CASE o = "records" /\ n > 0 ->
                  /\ Step("f_save", out, log, timer, self)
                  /\ ex' = [ex EXCEPT !.result =
                                [source_name |-> cfg.name, records |-> n,
                                 extractor |-> ex.chosen]]
            [] o = "cancel" -> End(TimedOut, "fired") /\ ex' = ex
            [] OTHER ->
                  /\ Step("e_select", out, log, timer, self)
                  /\ ex' = [ex EXCEPT !.i = @ + 1, !.chosen = "none"]
    /\ UNCHANGED <<file, web, lg>> /\ Keep

(* raw_data = await extractor.extract(self.page), an ExtractionException
   when it fails (self.page is None included); the result dict *)
EExtract ==
    /\ pc = "e_extract"
    /\ \E o \in (IF self.page = "None" THEN {"raises"}
                 ELSE Outcomes({"records", "raises"}))
                \cup (IF timer = "armed" /\ ex.chosen = "content" /\ self.page # "None"
                      THEN {"swallowed"} ELSE {}),
          n \in IF ex.chosen = "raw" THEN {1} ELSE 0..2, e \in ErrTexts :
          CASE o \in {"records", "swallowed"} ->
                  /\ Step("f_save", out, log,
                          IF o = "swallowed" THEN "fired" ELSE timer, self)
                  /\ ex' = [ex EXCEPT !.result =
                                [source_name |-> cfg.name, records |-> n,
                                 extractor |-> ex.chosen]]
            [] o = "raises" ->
                  /\ End(Raised(<<"Data extraction failed: ", "Failed to extract: ">> \o e),
                         timer)
                  /\ ex' = ex
            [] o = "cancel" -> End(TimedOut, "fired") /\ ex' = ex
    /\ UNCHANGED <<file, web, lg>> /\ Keep

(* a query() whose final save is opportunistic: the result is returned
   although save_session raised *)
FSaveTolerant ==
    /\ pc = "f_save"
    /\ LET returned == [NoOut EXCEPT !.kind = "result", !.result = ex.result] IN
       IF self.context = "None"
       THEN End(returned, timer) /\ file' = file
       ELSE \E o \in Outcomes({"ok", "raises"}) :
               CASE o = "ok" ->
                       /\ Step("aexit", returned,
                               [Mark("save_session") EXCEPT !.saves = @ + 1], timer, self)
                       /\ file' = "fresh"
                 [] o = "raises" -> End(returned, timer) /\ file' = file
                 [] o = "cancel" -> End(TimedOut, "fired") /\ file' = file
    /\ UNCHANGED <<web, lg, ex>> /\ Keep

(* if self.context: await self.session_manager.save_session(self.context);
   return result *)
FSave ==
    /\ pc = "f_save"
    /\ LET returned == [NoOut EXCEPT !.kind = "result", !.result = ex.result] IN
       IF self.context = "None"
       THEN End(returned, timer) /\ file' = file
       ELSE \E o \in Outcomes({"ok", "raises"}), e \in ErrTexts :
               CASE o = "ok" ->
                       /\ Step("aexit", returned,
                               [Mark("save_session") EXCEPT !.saves = @ + 1], timer, self)
                       /\ file' = "fresh"
                 [] o = "raises" -> End(Wrapped(e), timer) /\ file' = file
                 [] o = "cancel" -> End(TimedOut, "fired") /\ file' = file
    /\ UNCHANGED <<web, lg, ex>> /\ Keep

(***************************************************************************)
(* __aexit__ and cleanup                                                   *)
(***************************************************************************)
(* an __aexit__ that releases nothing *)
AExitWithoutCleanup ==
    /\ pc = "aexit"
    /\ Step("respond", out, log, timer, self)
    /\ lg' = NoLogin /\ ex' = NoExtract
    /\ UNCHANGED <<file, web>> /\ Keep

(* async def __aexit__(...): await self.cleanup(); the frames of query()
   and login() are gone *)
AExit ==
    /\ pc = "aexit"
    /\ Step("cleanup_page", out, log, timer, self)
    /\ lg' = NoLogin /\ ex' = NoExtract
    /\ UNCHANGED <<file, web>> /\ Keep

(* a cleanup() without its try blocks: the exception of a close leaves
   cleanup() and __aexit__ and takes the place of the query's outcome *)
CloseUnguarded(field, npc) ==
    /\ IF self[field] = "None"
       THEN Step(npc, out, [log EXCEPT !.cleanup = TRUE], timer, self)
       ELSE \E o \in {"ok", "raises"}, e \in ErrTexts :
               IF o = "ok"
               THEN Step(npc, out,
                         [log EXCEPT !.cleanup = TRUE, !.tried = @ \cup {field}], timer,
                         [self EXCEPT ![field] = "None"])
               ELSE Step("respond", Unwrapped(e),
                         [log EXCEPT !.cleanup = TRUE, !.tried = @ \cup {field}], timer,
                         self)
    /\ UNCHANGED <<file, web, lg, ex>> /\ Keep

(* try: if self.<field>: await close; self.<field> = None
   except Exception: warning *)
Close(field, npc) ==
    /\ IF self[field] = "None"
       THEN Step(npc, out, [log EXCEPT !.cleanup = TRUE], timer, self)
       ELSE \E o \in {"ok", "raises"} :
               Step(npc, out,
                    [log EXCEPT !.cleanup = TRUE, !.tried = @ \cup {field}], timer,
                    IF o = "ok" THEN [self EXCEPT ![field] = "None"] ELSE self)
    /\ UNCHANGED <<file, web, lg, ex>> /\ Keep

CleanupPage == pc = "cleanup_page" /\ Close("page", "cleanup_context")

CleanupContext == pc = "cleanup_context" /\ Close("context", "cleanup_browser")

CleanupBrowser == pc = "cleanup_browser" /\ Close("browser", "cleanup_playwright")

CleanupPlaywright == pc = "cleanup_playwright" /\ Close("playwright", "respond")

(***************************************************************************)
(* query_site, after the async with block                                  *)
(***************************************************************************)
(* the QueryResponse, or the HTTPException the except clauses raise *)
Respond ==
    /\ pc = "respond"
    /\ LET status ==
             CASE out.kind = "result" -> 200
               [] out.kind = "TimeoutError" -> 504
               [] out.kind = "ScraperException" ->
                     IF HasWord(out.msg, "authentication") \/ HasWord(out.msg, "login")
                     THEN 401
                     ELSE IF HasWord(out.msg, "configuration") THEN 400
                     ELSE 500
               [] OTHER -> 500
       IN Step("done", [out EXCEPT !.status = status], log, timer, self)
    /\ UNCHANGED <<file, web, lg, ex>> /\ Keep

QueryNext ==
    \/ Resolve \/ InitBrowser \/ WaitFor
    \/ VExpired \/ VLoad \/ VContext \/ VQuick \/ VQuickPage \/ VClose \/ VPage
    \/ VGoto \/ VStrategy \/ VFailClose \/ VExcClose
    \/ LoginStart \/ LContext \/ LInteract \/ LoginReturned \/ LoginRaised
    \/ LoginCancelled \/ LSave
    \/ LgStart \/ LgGoto \/ LgIonic \/ LgSettle \/ LgEmail \/ LgPassword \/ LgSubmit
    \/ Check \/ CheckDone \/ LgExtract
    \/ Search \/ SGoto \/ SWait \/ SFill \/ SFallback \/ SClick
    \/ Extract \/ ESelect \/ ESelectNone \/ EExtract \/ FSave
    \/ AExit \/ CleanupPage \/ CleanupContext \/ CleanupBrowser \/ CleanupPlaywright
    \/ Respond

Spec == QueryInit /\ [][QueryNext]_vars

(***************************************************************************)
(* FormBasedAuth.login called on its own, on a page its caller opened.     *)
(***************************************************************************)
LoginFailureLists ==
    {<<>>,
     <<ElementPresent(".error-message", TRUE)>>,
     <<ElementPresent(".error-message", FALSE)>>,
     <<UrlChange(<<"login">>), ElementPresent(".error-message", TRUE)>>}

LoginSuccessLists ==
    SuccessLists \cup {<<>>, <<ElementAbsent(".error-message")>>}

LoginConfigs ==
    [exists : {TRUE}, name : {"Site"}, auth : {"form_based"}, creds : BOOLEAN,
     validation : {"full"}, search : {"absent"}, strategies : {<<"table">>},
     failure_indicators : LoginFailureLists,
     success_indicators : LoginSuccessLists]

LoginInit ==
    /\ cfg \in LoginConfigs
    /\ pc = "lg_start"
    /\ timer = "off"
    /\ self = [f \in Fields |-> "set"]
    /\ file = "absent"
    /\ web = NoPage
    /\ lg = NoLogin
    /\ ex = NoExtract
    /\ log = NoLog
    /\ out = NoOut
    /\ req = Hello
    /\ tm = NoClock
    /\ authState = NoAuth
    /\ gate = NoGate
    /\ ia = NoInteraction
    /\ registry = NoRegistry
    /\ plug = NoPlugins
    (* the session store is not looked into *)
    /\ platform = "fcntl"
    /\ dir = [s \in Sites |-> NoFile]
    /\ inodes = [i \in Inodes |-> <<>>]
    /\ sp = [p \in Procs |-> Idle]

LoginNext ==
    \/ LgStart \/ LgGoto \/ LgIonic \/ LgSettle \/ LgEmail \/ LgPassword \/ LgSubmit
    \/ Check \/ CheckDone \/ LgExtract

SpecLogin == LoginInit /\ [][LoginNext]_vars

(***************************************************************************)
(* The entry points: POST /query/{site_id} (app.py), whose body FastAPI    *)
(* parses into a QueryRequest before the handler runs, and the CLI's       *)
(* query command (cli.py).                                                 *)
(***************************************************************************)
EntryConfigs ==
    {c \in Configs : c.auth = "none" /\ c.validation = "full"
                     /\ c.search = "absent" /\ c.strategies = <<"table">>}

EntryInit ==
    /\ cfg \in EntryConfigs
    /\ req \in Requests
    /\ tm = NoClock
    /\ authState = NoAuth
    /\ gate = NoGate
    /\ ia = NoInteraction
    /\ registry = NoRegistry
    /\ plug = NoPlugins
    /\ pc = "entry"
    /\ timer = "off"
    /\ self = [f \in Fields |-> "None"]
    /\ file \in {"absent", "fresh"}
    /\ web = NoPage
    /\ lg = NoLogin
    /\ ex = NoExtract
    /\ log = NoLog
    /\ out = NoOut
    /\ platform = "fcntl"
    /\ dir = [s \in Sites |-> NoFile]
    /\ inodes = [i \in Inodes |-> <<>>]
    /\ sp = [p \in Procs |-> Idle]

(* the request is turned down with message msg *)
Rejected(kind, status, msg) ==
    [NoOut EXCEPT !.kind = kind, !.status = status, !.msg = msg]

(* QueryRequest.validate_query; a ValueError is answered 422 *)
ValidateQuery ==
    /\ pc = "entry" /\ req.entry = "api"
    /\ LET v == req.raw IN
       IF v = <<>> \/ QLen(QStrip(v)) = 0
       THEN /\ Step("done", Rejected("ValidationError", 422, <<"Query cannot be empty">>),
                    log, timer, self)
            /\ req' = req
       ELSE IF QLen(v) > MaxQueryLength
       THEN /\ Step("done",
                    Rejected("ValidationError", 422,
                             <<"Query too long (max 1000 characters)">>),
                    log, timer, self)
            /\ req' = req
       ELSE /\ Step("resolve", out, log, timer, self)
            /\ req' = [req EXCEPT !.query = QStrip(v)]
    /\ UNCHANGED <<cfg, tm, authState, gate, ia, registry, plug, storeVars, file, web, lg, ex>>

(* cli.py query_site: if not query or not query.strip(): return 1 *)
CliValidate ==
    /\ pc = "entry" /\ req.entry = "cli"
    /\ LET query == req.raw IN
       IF query = <<>> \/ QStrip(query) = <<>>
       THEN /\ Step("done", Rejected("cli_error", 1, <<"Query cannot be empty">>),
                    log, timer, self)
            /\ req' = req
       ELSE /\ Step("construct", out, log, timer, self)
            /\ req' = [req EXCEPT !.query = query]
    /\ UNCHANGED <<cfg, tm, authState, gate, ia, registry, plug, storeVars, file, web, lg, ex>>

(* cli.py: GenericScraper(site_id), whose __init__ loads the configuration
   and raises ScraperException when there is none; the CLI prints it and
   returns 1 *)
Construct ==
    /\ pc = "construct"
    /\ IF cfg.exists
       THEN Step("init_browser", out, log, timer, self)
       ELSE Step("done",
                 [Raised(<<"Site configuration error: ">>) EXCEPT !.status = 1],
                 log, timer, self)
    /\ UNCHANGED <<file, web, lg, ex>> /\ Keep

EntryNext == ValidateQuery \/ CliValidate \/ Resolve \/ Construct \/ InitBrowser

SpecEntry == EntryInit /\ [][EntryNext]_vars

(***************************************************************************)
(* SessionManager.is_session_expired against the clock.                    *)
(***************************************************************************)
TtlValues == {2, DefaultTtl}

ExpiryInit ==
    /\ \E x \in BOOLEAN, t \in TtlValues :
          tm = [NoClock EXCEPT !.exists = x, !.ttl = t]
    /\ authState = NoAuth
    /\ gate = NoGate
    /\ ia = NoInteraction
    /\ registry = NoRegistry
    /\ plug = NoPlugins
    /\ cfg = [exists |-> TRUE]
    /\ req = NoRequest
    /\ pc = "off"
    /\ timer = "off"
    /\ self = [f \in Fields |-> "None"]
    /\ file = "absent"
    /\ web = NoPage
    /\ lg = NoLogin
    /\ ex = NoExtract
    /\ log = NoLog
    /\ out = NoOut
    /\ platform = "fcntl"
    /\ dir = [s \in Sites |-> NoFile]
    /\ inodes = [i \in Inodes |-> <<>>]
    /\ sp = [p \in Procs |-> Idle]

ExpiryKeep ==
    UNCHANGED <<storeVars, cfg, pc, timer, self, file, web, lg, ex, log, out, req,
                authState, gate, ia, registry, plug>>

(* time passes *)
Advance ==
    /\ tm.n < MaxAdvances
    /\ \E d \in {1, tm.ttl - 1} :
          tm' = [tm EXCEPT !.now = @ + d, !.n = @ + 1]
    /\ ExpiryKeep

(* a store whose file keeps the time of its creation when it is rewritten *)
TouchKeepsBirth ==
    /\ tm' = [tm EXCEPT !.exists = TRUE, !.saved = tm.now,
                        !.mtime = IF tm.exists THEN @ ELSE tm.now]
    /\ ExpiryKeep

(* save_session writes the file: its mtime is now *)
Touch ==
    /\ tm' = [tm EXCEPT !.exists = TRUE, !.saved = tm.now, !.mtime = tm.now]
    /\ ExpiryKeep

(* delete_session unlinks the file *)
Remove ==
    /\ tm.exists
    /\ tm' = [tm EXCEPT !.exists = FALSE]
    /\ ExpiryKeep

(* is_expired = age_seconds >= ttl_seconds *)
ExpiredInclusive(age_seconds, ttl_seconds) == age_seconds >= ttl_seconds

(* is_expired = age_seconds > ttl_seconds *)
Expired(age_seconds, ttl_seconds) == age_seconds > ttl_seconds

(* is_session_expired(): True without a file, else whether the age of the
   file exceeds the ttl *)
IsSessionExpired ==
    /\ LET age_seconds == tm.now - tm.mtime IN
       tm' = [tm EXCEPT
                 !.had = tm.exists,
                 !.age = IF tm.exists THEN age_seconds ELSE 0,
                 !.ans = IF ~tm.exists THEN "expired"
                         ELSE IF Expired(age_seconds, tm.ttl) THEN "expired"
                         ELSE "valid"]
    /\ ExpiryKeep

ExpiryNext == Advance \/ Touch \/ Remove \/ IsSessionExpired

SpecExpiry == ExpiryInit /\ [][ExpiryNext]_vars

(***************************************************************************)
(* GenericScraper._get_auth_strategy and the AuthRegistry.                 *)
(***************************************************************************)
(* AuthRegistry.get(scenario) after _register_builtin_strategies(): the
   classes of auth/strategies; oauth2, captcha and mfa have no module *)
AuthRegistryGet(scenario) ==
    CASE scenario \in {"simple_form", "form_based"} -> "FormBasedAuth"
      [] scenario = "api_key" -> "APIKeyAuth"
      [] scenario = "none" -> "NoneAuth"
      [] OTHER -> "None"

(* auth_type = auth_config.get('type', 'none') *)
AuthType(auth_config) ==
    IF auth_config.type = "absent" THEN "none" ELSE auth_config.type

AuthInit ==
    /\ \E c \in AuthConfigs, k \in BOOLEAN :
          authState = [NoAuth EXCEPT !.config = c, !.creds = k]
    /\ gate = NoGate
    /\ ia = NoInteraction
    /\ registry = NoRegistry
    /\ plug = NoPlugins
    /\ tm = NoClock
    /\ cfg = [exists |-> TRUE]
    /\ req = NoRequest
    /\ pc = "off"
    /\ timer = "off"
    /\ self = [f \in Fields |-> "None"]
    /\ file = "absent"
    /\ web = NoPage
    /\ lg = NoLogin
    /\ ex = NoExtract
    /\ log = NoLog
    /\ out = NoOut
    /\ platform = "fcntl"
    /\ dir = [s \in Sites |-> NoFile]
    /\ inodes = [i \in Inodes |-> <<>>]
    /\ sp = [p \in Procs |-> Idle]

(* _get_auth_strategy(): the cached strategy if there is one; else None for
   type 'none', a new FormBasedAuth, cached, for 'form_based', and
   ScraperException("Unsupported auth type: ...") for every other type *)
GetAuthStrategy ==
    /\ authState.n < MaxOps
    /\ LET auth_type == AuthType(authState.config) IN
       authState' =
          IF authState.cached # "None"
          THEN [authState EXCEPT !.ret = authState.cached, !.n = @ + 1]
          ELSE IF auth_type = "none"
          THEN [authState EXCEPT !.ret = "None", !.n = @ + 1]
          ELSE IF auth_type = "form_based"
          THEN [authState EXCEPT !.cached = "FormBasedAuth",
                                 !.ret = "FormBasedAuth", !.n = @ + 1]
          ELSE [authState EXCEPT !.ret = "ScraperException", !.n = @ + 1]
    /\ UNCHANGED <<storeVars, cfg, pc, timer, self, file, web, lg, ex, log, out, req, tm, gate, ia, registry, plug>>

AuthNext == GetAuthStrategy

SpecAuth == AuthInit /\ [][AuthNext]_vars

(***************************************************************************)
(* PluginManager (core/plugin_manager.py) and SiteConfigLoader.load_site   *)
(* (core/config_loader.py), both process-wide singletons.                  *)
(***************************************************************************)
PluginInit ==
    /\ \E d \in SUBSET PluginIds, l \in SUBSET PluginIds :
          plug = [NoPlugins EXCEPT !.disk = d, !.legacy = l]
    /\ authState = NoAuth
    /\ gate = NoGate
    /\ ia = NoInteraction
    /\ registry = NoRegistry
    /\ tm = NoClock
    /\ cfg = [exists |-> TRUE]
    /\ req = NoRequest
    /\ pc = "off"
    /\ timer = "off"
    /\ self = [f \in Fields |-> "None"]
    /\ file = "absent"
    /\ web = NoPage
    /\ lg = NoLogin
    /\ ex = NoExtract
    /\ log = NoLog
    /\ out = NoOut
    /\ platform = "fcntl"
    /\ dir = [s \in Sites |-> NoFile]
    /\ inodes = [i \in Inodes |-> <<>>]
    /\ sp = [p \in Procs |-> Idle]

(* load_all_plugins(): every discovered plugin, loaded anew and enabled *)
LoadAll(p) ==
    [p EXCEPT !.loaded = TRUE,
              !.plugins = [i \in PluginIds |-> IF i \in p.disk THEN "on" ELSE "absent"],
              !.last = [i \in PluginIds |-> "none"]]

(* get_plugin / get_all_plugins: if not self._loaded: self.load_all_plugins() *)
Loaded(p) == IF p.loaded THEN p ELSE LoadAll(p)

(* what every call but load_site leaves alone *)
PluginKeep ==
    UNCHANGED <<storeVars, cfg, pc, timer, self, file, web, lg, ex, log, out, req, tm,
                authState, gate, ia, registry>>

LoadAllPlugins ==
    /\ plug' = [LoadAll(plug) EXCEPT !.op = "load_all_plugins", !.id = "none",
                                     !.ret = "none"]
    /\ PluginKeep

EnablePlugin(i) ==
    /\ LET p == Loaded(plug) IN
       plug' = [p EXCEPT !.plugins[i] = IF @ = "absent" THEN @ ELSE "on",
                         !.last[i] = "enable",
                         !.op = "enable_plugin", !.id = i,
                         !.ret = IF p.plugins[i] = "absent" THEN "False" ELSE "True"]
    /\ PluginKeep

(* a disable_plugin that says True and leaves the flag *)
DisablePluginKeepsFlag(i) ==
    /\ LET p == Loaded(plug) IN
       plug' = [p EXCEPT !.last[i] = "disable",
                         !.op = "disable_plugin", !.id = i,
                         !.ret = IF p.plugins[i] = "absent" THEN "False" ELSE "True"]
    /\ PluginKeep

DisablePlugin(i) ==
    /\ LET p == Loaded(plug) IN
       plug' = [p EXCEPT !.plugins[i] = IF @ = "absent" THEN @ ELSE "off",
                         !.last[i] = "disable",
                         !.op = "disable_plugin", !.id = i,
                         !.ret = IF p.plugins[i] = "absent" THEN "False" ELSE "True"]
    /\ PluginKeep

GetEnabledPlugins ==
    /\ LET p == Loaded(plug) IN
       plug' = [p EXCEPT !.op = "get_enabled_plugins", !.id = "none", !.ret = "none",
                         !.listed = {i \in PluginIds : p.plugins[i] = "on"}]
    /\ PluginKeep

(* load_site(site_id): the cached config if there is one; else the config
   of the enabled plugin, else the legacy file, each cached; else
   ConfigurationException *)
LoadSite(i) ==
    /\ IF plug.cache[i] # "none"
       THEN plug' = [plug EXCEPT !.op = "load_site", !.id = i, !.ret = plug.cache[i]]
       ELSE LET p == Loaded(plug)
                found == IF p.plugins[i] = "on" THEN "plugin"
                         ELSE IF i \in p.legacy THEN "legacy"
                         ELSE "none"
            IN  plug' = [p EXCEPT !.cache[i] = found,
                                  !.op = "load_site", !.id = i,
                                  !.ret = IF found = "none" THEN "ConfigurationException"
                                          ELSE found]
    /\ PluginKeep

PluginNext ==
    \/ LoadAllPlugins \/ GetEnabledPlugins
    \/ \E i \in PluginIds : EnablePlugin(i) \/ DisablePlugin(i) \/ LoadSite(i)

SpecPlugins == PluginInit /\ [][PluginNext]_vars

(***************************************************************************)
(* AuthRegistry (core/auth_registry.py): one class-level dict.             *)
(***************************************************************************)
(* the registry empty, or as _register_builtin_strategies leaves it *)
RegistryInit ==
    /\ \E builtin \in BOOLEAN :
          registry =
             IF builtin
             THEN [NoRegistry EXCEPT
                      !.strategies = [s \in ScenarioNames |->
                                         IF s = "simple_form" THEN "FormBasedAuth"
                                         ELSE IF s = "api_key" THEN "APIKeyAuth"
                                         ELSE "None"],
                      !.calls = <<<<"simple_form", "FormBasedAuth">>,
                                  <<"api_key", "APIKeyAuth">>>>]
             ELSE NoRegistry
    /\ plug = NoPlugins
    /\ authState = NoAuth
    /\ gate = NoGate
    /\ ia = NoInteraction
    /\ tm = NoClock
    /\ cfg = [exists |-> TRUE]
    /\ req = NoRequest
    /\ pc = "off"
    /\ timer = "off"
    /\ self = [f \in Fields |-> "None"]
    /\ file = "absent"
    /\ web = NoPage
    /\ lg = NoLogin
    /\ ex = NoExtract
    /\ log = NoLog
    /\ out = NoOut
    /\ platform = "fcntl"
    /\ dir = [s \in Sites |-> NoFile]
    /\ inodes = [i \in Inodes |-> <<>>]
    /\ sp = [p \in Procs |-> Idle]

RegistryKeep ==
    UNCHANGED <<storeVars, cfg, pc, timer, self, file, web, lg, ex, log, out, req, tm,
                authState, gate, ia, plug>>

(* a register that keeps the class registered first *)
RegisterKeepsFirst(scenario, strategy_class) ==
    /\ Len(registry.calls) < MaxRegs
    /\ registry' = [registry EXCEPT
                       !.strategies[scenario] = IF @ = "None" THEN strategy_class ELSE @,
                       !.calls = Append(@, <<scenario, strategy_class>>),
                       !.op = "register", !.arg = scenario, !.ret = "none"]
    /\ RegistryKeep

(* cls._strategies[scenario] = strategy_class, with a warning on overwrite *)
Register(scenario, strategy_class) ==
    /\ Len(registry.calls) < MaxRegs
    /\ registry' = [registry EXCEPT
                       !.strategies[scenario] = strategy_class,
                       !.calls = Append(@, <<scenario, strategy_class>>),
                       !.op = "register", !.arg = scenario, !.ret = "none"]
    /\ RegistryKeep

(* return cls._strategies.get(scenario) *)
Get(scenario) ==
    /\ registry' = [registry EXCEPT !.op = "get", !.arg = scenario,
                                    !.ret = registry.strategies[scenario]]
    /\ RegistryKeep

(* return scenario in cls._strategies *)
IsRegistered(scenario) ==
    /\ registry' = [registry EXCEPT
                       !.op = "is_registered", !.arg = scenario,
                       !.ret = IF registry.strategies[scenario] # "None"
                               THEN "True" ELSE "False"]
    /\ RegistryKeep

(* return list(cls._strategies.keys()) *)
ListScenarios ==
    /\ registry' = [registry EXCEPT
                       !.op = "list_scenarios", !.arg = "none", !.ret = "none",
                       !.listed = {s \in ScenarioNames : registry.strategies[s] # "None"}]
    /\ RegistryKeep

RegistryNext ==
    \/ ListScenarios
    \/ \E s \in ScenarioNames :
          \/ Get(s) \/ IsRegistered(s)
          \/ \E c \in StrategyClasses : Register(s, c)

SpecRegistry == RegistryInit /\ [][RegistryNext]_vars

(***************************************************************************)
(* _handle_interactions called on its own, on a page its caller opened.    *)
(***************************************************************************)
(* the classes the handler modules registered, in any order of import *)
InteractInit ==
    /\ \E n \in 0..MaxHandlers : \E r \in [1..n -> Priorities] :
          ia = [NoInteraction EXCEPT !.reg = r, !.pc = "get"]
    /\ registry = NoRegistry
    /\ plug = NoPlugins
    /\ authState = NoAuth
    /\ gate = NoGate
    /\ tm = NoClock
    /\ cfg = [exists |-> TRUE]
    /\ req = NoRequest
    /\ pc = "off"
    /\ timer = "off"
    /\ self = [f \in Fields |-> "set"]
    /\ file = "absent"
    /\ web = NoPage
    /\ lg = NoLogin
    /\ ex = NoExtract
    /\ log = NoLog
    /\ out = NoOut
    /\ platform = "fcntl"
    /\ dir = [s \in Sites |-> NoFile]
    /\ inodes = [i \in Inodes |-> <<>>]
    /\ sp = [p \in Procs |-> Idle]

InteractKeep ==
    UNCHANGED <<storeVars, cfg, pc, timer, self, file, web, lg, ex, log, out, req, tm,
                authState, gate, registry, plug>>

(* handlers = cls.get_handlers(config): one instance per registered class,
   sorted by priority.  A constructor that raises leaves handle_interactions
   and is caught by _handle_interactions' except Exception. *)
GetHandlers ==
    /\ ia.pc = "get"
    /\ \E o \in {"ok", "raises"} :
          ia' = IF o = "ok"
                THEN [ia EXCEPT
                         !.handlers = SortByPriority(
                             [k \in DOMAIN ia.reg |->
                                 [name |-> k, priority |-> ia.reg[k]]]),
                         !.i = 1, !.pc = "detect"]
                ELSE [ia EXCEPT !.caught = TRUE, !.pc = "done", !.ret = "None"]
    /\ InteractKeep

(* if await handler.detect(page): ...; an exception is caught in the loop
   and appended as a failed result *)
Detect ==
    /\ ia.pc = "detect"
    /\ ia.i <= Len(ia.handlers)
    /\ \E o \in {"true", "false", "raises"} :
          LET h == ia.handlers[ia.i]
              call == [name |-> h.name, priority |-> h.priority,
                       op |-> "detect", outcome |-> o]
          IN  ia' = CASE o = "true" ->
                          [ia EXCEPT !.calls = Append(@, call), !.pc = "handle"]
                      [] o = "false" ->
                          [ia EXCEPT !.calls = Append(@, call), !.i = @ + 1]
                      [] o = "raises" ->
                          [ia EXCEPT !.calls = Append(@, call), !.i = @ + 1,
                                     !.results = Append(@, FALSE)]
    /\ InteractKeep

(* result = await handler.handle(page); results.append(result); an
   exception is caught in the loop and appended as a failed result *)
Handle ==
    /\ ia.pc = "handle"
    /\ \E o \in {"success", "failure", "raises"} :
          LET h == ia.handlers[ia.i]
              call == [name |-> h.name, priority |-> h.priority,
                       op |-> "handle", outcome |-> o]
          IN  ia' = [ia EXCEPT !.calls = Append(@, call), !.i = @ + 1,
                               !.results = Append(@, o = "success"),
                               !.pc = "detect"]
    /\ InteractKeep

(* return results; _handle_interactions logs each and returns None *)
InteractionsHandled ==
    /\ ia.pc = "detect"
    /\ ia.i > Len(ia.handlers)
    /\ ia' = [ia EXCEPT !.pc = "done", !.ret = "None"]
    /\ InteractKeep

InteractNext == GetHandlers \/ Detect \/ Handle \/ InteractionsHandled

SpecInteract == InteractInit /\ [][InteractNext]_vars

(***************************************************************************)
(* Requests passing the verify_api_key middleware to the routes.           *)
(***************************************************************************)
GateInit ==
    /\ \E k \in ApiKeys : gate = [NoGate EXCEPT !.API_KEY = k]
    /\ ia = NoInteraction
    /\ registry = NoRegistry
    /\ plug = NoPlugins
    /\ authState = NoAuth
    /\ tm = NoClock
    /\ cfg = [exists |-> TRUE]
    /\ req = NoRequest
    /\ pc = "off"
    /\ timer = "off"
    /\ self = [f \in Fields |-> "None"]
    /\ file = "absent"
    /\ web = NoPage
    /\ lg = NoLogin
    /\ ex = NoExtract
    /\ log = NoLog
    /\ out = NoOut
    /\ platform = "fcntl"
    /\ dir = [s \in Sites |-> NoFile]
    /\ inodes = [i \in Inodes |-> <<>>]
    /\ sp = [p \in Procs |-> Idle]

GateKeep ==
    UNCHANGED <<storeVars, cfg, pc, timer, self, file, web, lg, ex, log, out, req, tm,
                authState, ia, registry, plug>>

(* a request arrives, with or without an X-API-Key header *)
Receive ==
    /\ gate.pc \in {"idle", "done"}
    /\ gate.n < MaxRequests
    /\ \E p \in Paths, h \in {"None", "k1", "k2"} :
          gate' = [gate EXCEPT !.path = p, !.header = h, !.pc = "middleware",
                               !.status = 0, !.scraper = FALSE, !.n = @ + 1]
    /\ GateKeep

(* verify_api_key: "/" passes; with API_KEY set (and not empty) a request
   whose path is "/query" must carry the key or is answered 401; every
   other request is passed on *)
VerifyApiKey ==
    /\ gate.pc = "middleware"
    /\ gate' = IF /\ gate.path # "/"
                  /\ gate.API_KEY \notin {"None", ""}
                  /\ gate.path = "/query"
                  /\ gate.header # gate.API_KEY
               THEN [gate EXCEPT !.status = 401, !.pc = "done"]
               ELSE [gate EXCEPT !.pc = "route"]
    /\ GateKeep

(* call_next(request): query_default_site calls query_site("emis"), which
   runs a GenericScraper when load_site finds the site (else 404) and
   answers with the outcome of the query; the other routes run none *)
CallNext ==
    /\ gate.pc = "route"
    /\ IF gate.path \in {"/query", "/query/emis"}
       THEN \E s \in {200, 401, 404, 500, 504} :
               gate' = [gate EXCEPT !.status = s, !.scraper = (s # 404), !.pc = "done"]
       ELSE gate' = [gate EXCEPT !.status = 200, !.pc = "done"]
    /\ GateKeep

GateNext == Receive \/ VerifyApiKey \/ CallNext

SpecGate == GateInit /\ [][GateNext]_vars

(***************************************************************************)
(* Claims about the session store (checked under SpecStore).               *)
(***************************************************************************)

(* C1: a load_session that finds the record returns the complete content
   written by one save: json.load never meets an empty, truncated or mixed
   file.  Stated for the platform with flock, where both calls take their
   locks. *)
C1_LoadNeverSeesPartialRecord ==
    platform = "fcntl" =>
        \A p \in Procs : sp[p].op = "load" => sp[p].got # "bad"

(* a save is modifying the record from its first change to the file (the
   truncation by open) until its last (the flush by close) *)
Modifying(p) ==
    sp[p].op = "save" /\ sp[p].pc \in {"sv_lock", "sv_dump", "sv_unlock", "sv_close"}

(* a load is reading the record: it holds its lock and json.load is next *)
Reading(p) == sp[p].op = "load" /\ sp[p].pc = "ld_read"

(* C2: single writer, many readers, per site id: at most one save_session is
   modifying a site's record, and no load_session reads it meanwhile.
   Stated for the platform with flock. *)
C2_SingleWriterMultiReader ==
    platform = "fcntl" =>
        \A p, q \in Procs :
            (p # q /\ SiteOf(p) = SiteOf(q) /\ Modifying(p))
                => (~Modifying(q) /\ ~Reading(q))

(* C3: a load_session waiting for its shared lock is never kept waiting by
   other load_session calls (only a save holding the file can block it), and
   managers of different site ids never meet on a file. *)
C3_LoadsDoNotBlockLoads ==
    /\ \A p \in Procs :
          (/\ sp[p].pc = "ld_lock"
           /\ \A q \in Procs \ {p} :
                 (sp[q].fd = sp[p].fd /\ sp[q].lock # "none") => sp[q].op = "load")
              => CanLock(p, LockKind(FALSE))
    /\ \A p, q \in Procs :
          (SiteOf(p) # SiteOf(q) /\ sp[p].fd # NoFile) => sp[p].fd # sp[q].fd

(* C33: when the only calls made for a site are save_session calls, one per
   manager, and all have returned, the site's file holds the complete text
   of the state one of them wrote: never an empty, cut or mixed text.
   Stated for the platform with flock, where every save takes its lock. *)
C33_ConcurrentSavesLeaveOneRecord ==
    platform = "fcntl" => \A s \in Sites :
        LET called == {p \in Procs : SiteOf(p) = s /\ sp[p].n > 0} IN
        (/\ called # {}
         /\ \A p \in called :
               sp[p].pc = "idle" /\ sp[p].n = 1 /\ sp[p].res = "saved")
            => /\ dir[s] # NoFile
               /\ WellFormed(inodes[dir[s]])
               /\ \E p \in called : Parse(inodes[dir[s]]) = sp[p].val

(* C34: a save that has returned is durable: when the calls made for a site
   are one save_session that returned and otherwise only load_session calls
   (no second save, no delete_session call), all of them done, the site's
   record is there and a load would return what the save wrote.  Stated for
   the platform with flock. *)
C34_SaveIsDurable ==
    platform = "fcntl" => \A s \in Sites :
        LET called == {p \in Procs : SiteOf(p) = s /\ sp[p].n > 0}
            saved == {p \in called : sp[p].op = "save"}
        IN
        (/\ Cardinality(saved) = 1
         /\ \A p \in called :
               /\ sp[p].pc = "idle" /\ sp[p].n = 1
               /\ sp[p].op \in {"save", "load"}
         /\ \A p \in saved : sp[p].res = "saved")
            => /\ dir[s] # NoFile
               /\ \A p \in saved : inodes[dir[s]] = Serialize(sp[p].val)

(* the step in which p's load_session returns *)
LoadReturns(p) ==
    sp[p].op = "load" /\ sp[p].pc # "idle" /\ sp'[p].pc = "idle"

(* C16 (checked under SpecFound): a load_session that could not deserialize
   the record returns None with the record deleted, so that session_exists()
   is false as it returns; a load_session that finds no record returns None
   and changes nothing. *)
C16_CorruptRecordDeleted ==
    [][\A p \in Procs :
          /\ (LoadReturns(p) /\ sp[p].got \in {"bad", "undecodable"}) =>
                /\ sp'[p].res = "None"
                /\ dir'[SiteOf(p)] = NoFile
          /\ (LoadReturns(p) /\ sp[p].pc = "ld_exists") =>
                /\ sp'[p].res = "None"
                /\ dir' = dir /\ inodes' = inodes]_vars

(* C24 (checked under SpecFound): delete_session returns without raising
   and with the record gone, so that session_exists() is false as it
   returns; a delete that finds no record changes nothing. *)
C24_DeleteIdempotent ==
    [][\A p \in Procs :
          (sp[p].op = "delete" /\ sp[p].pc # "idle" /\ sp'[p].pc = "idle") =>
              /\ sp'[p].res = "None"
              /\ dir'[SiteOf(p)] = NoFile
              /\ dir[SiteOf(p)] = NoFile => (dir' = dir /\ inodes' = inodes)]_vars

(***************************************************************************)
(* Claims about one query (checked under Spec).                            *)
(***************************************************************************)

(* C4: when login() fails, query() raises ScraperException("Authentication
   failed: ...") and that query runs no search, no extraction and no
   save_session. *)
C4_LoginFailureStopsQuery ==
    "login_failed" \in log.hist =>
        /\ out.kind = "ScraperException"
        /\ Contains(out.msg, <<"Authentication failed: ">>)
        /\ Head(out.msg) = "Authentication failed: "
        /\ log.hist \cap {"search", "extract", "save_session"} = {}
        /\ log.saves = 0

(* C4 witness: a query answered after its login failed on the indicators *)
C4_Witness ==
    /\ pc = "done" /\ "login_failed" \in log.hist
    /\ out.msg = <<"Authentication failed: ",
                   "Login failed - no success indicators matched">>

(* C5: whichever way the async with block is left (result, ScraperException,
   timeout) and also when the browser launch fails, cleanup() has run before
   query_site goes on, and it tried to close each of page, context, browser
   and playwright that the scraper held. *)
C5_CleanupOnEveryExit ==
    (cfg.exists /\ pc \in {"respond", "done"}) =>
        /\ log.cleanup
        /\ \A f \in Fields : self[f] = "set" => f \in log.tried

(* C5 witness: a query cancelled by the timeout whose four resources
   cleanup() tried to close *)
C5_Witness ==
    pc = "done" /\ out.kind = "TimeoutError" /\ log.tried = Fields

(* C6: once the timeout has fired, no later step of query() is entered, no
   result is returned, and the caller gets the timeout failure (504). *)
C6_TimeoutStopsQuery ==
    timer = "fired" =>
        /\ ~log.late
        /\ out.kind # "result"
        /\ pc = "done" => out.status = 504

(* the message of a failure the environment caused: a browser that does not
   start, a browser call that raises, a timeout *)
EnvironmentFailed ==
    \/ out.kind = "TimeoutError"
    \/ Contains(out.msg, <<"Browser initialization failed: ">>)
    \/ Contains(out.msg, <<"Query execution failed: ">>)
    \/ Contains(out.msg, <<"Failed to extract: ">>)

(* C8: when a failure indicator with extract_error matched and login() read
   the text of its element, the caller gets an authentication error (401)
   whose detail contains that text. *)
C8_ScrapedErrorReachesCaller ==
    (pc = "done" /\ log.scraped # <<>>) =>
        /\ out.kind = "ScraperException"
        /\ out.status = 401
        /\ Contains(out.msg, <<"Authentication failed: ">>)
        /\ Contains(out.msg, Strip(log.scraped))

(* C8 witness: the 401 answer carrying the text of .error-message *)
C8_Witness ==
    /\ pc = "done" /\ out.status = 401
    /\ cfg.failure_indicators = <<ElementPresent(".error-message", TRUE)>>
    /\ log.scraped = <<" ", "wrong password", " ">>
    /\ out.msg = <<"Authentication failed: ", "Login failed: ", "wrong password">>

(* C9: a site with auth none and the one strategy raw answers a query with a
   result whose source_name is the site's name and that has at least one
   record, unless the environment failed. *)
C9_NoneAuthRawSucceeds ==
    (/\ cfg.exists /\ cfg.auth = "none" /\ cfg.strategies = <<"raw">>
     /\ pc = "done" /\ ~EnvironmentFailed) =>
        /\ out.kind = "result"
        /\ out.result.source_name = cfg.name
        /\ out.result.records >= 1

(* C10: with the strategies [table, raw] and a page on which the table
   extractor finds nothing, selection ends with raw chosen, and extraction
   returns one record. *)
C10_RawFallbackSelected ==
    (/\ cfg.strategies = <<"table", "raw">> /\ "table" \in ex.refused
     /\ pc # "e_select") =>
        /\ ex.chosen = "raw"
        /\ pc = "f_save" => ex.result.records = 1

(* the strategy's can_extract is true of every page (RawExtractor) *)
AlwaysApplicable(t) == t = "raw"

(* C11: select_extractor returns the first strategy of the configured list
   whose can_extract is true of the page, and raises, failing the query with
   an extraction failure and no result, only when no configured strategy
   is applicable. *)
C11_FirstApplicableSelected ==
    /\ pc = "e_extract" =>
          /\ ex.chosen = cfg.strategies[ex.i]
          /\ \A j \in 1..(ex.i - 1) :
                /\ ~AlwaysApplicable(cfg.strategies[j])
                /\ cfg.strategies[j] # ex.chosen
    /\ Contains(out.msg, <<"No suitable extractor found for this page">>) =>
          /\ out.kind = "ScraperException"
          /\ Head(out.msg) = "Data extraction failed: "
          /\ \A j \in 1..Len(cfg.strategies) : ~AlwaysApplicable(cfg.strategies[j])

(* C12: a failure inside _perform_search does not end the query: once the
   search step was entered the query goes on to the extraction step, unless
   the timeout cancels it. *)
C12_SearchFailureNotFatal ==
    (/\ "search" \in log.hist
     /\ pc \notin {"s_goto", "s_wait", "s_fill", "s_fallback", "s_click", "extract"}) =>
        \/ "extract" \in log.hist
        \/ out.kind = "TimeoutError"

(* C12 witness: the search could not navigate (there is no page to call
   goto on) and the query is in its extraction step *)
C12_Witness ==
    /\ cfg.search # "absent" /\ self.page = "None"
    /\ pc = "e_select" /\ "extract" \in log.hist /\ out = NoOut

(* what the core's log statements interpolate: the exception login() raised
   ("Login failed: {e}"), the error text read off the page, and the
   exception that ended the query ("Query failed: {e}") *)
Logged == {lg.msg, log.scraped, out.msg}

(* C25: no message the core logs for a query holds the password or the API
   key of the site's credentials, although login() has filled the password
   into the page. *)
C25_CredentialsNotLogged ==
    \A m \in Logged :
        /\ ~Contains(m, <<Credentials.password>>)
        /\ ~Contains(m, <<Credentials.api_key>>)

(* the password was filled in and login() then raised with a message *)
C25_Witness ==
    /\ pc = "lg_raised"
    /\ cfg.creds
    /\ Contains(lg.typed, <<Credentials.password>>)
    /\ lg.msg # <<>>

(* the step of query() that position p belongs to, numbered in the order
   query() names them: 1 the browser, 2 _validate_session, 3 _login,
   4 _perform_search, 5 _extract_data, 6 the final save_session, 7 the end.
   The indicator loop belongs to whoever called it. *)
StepOf(p, l) ==
    CASE p \in {"resolve", "init_browser", "wait_for"} -> 1
      [] p \in {"v_expired", "v_load", "v_context", "v_quick", "v_quick_page",
                "v_close", "v_page", "v_goto", "v_strategy", "v_fail_close",
                "v_exc_close"} -> 2
      [] p \in {"check", "lg_extract"} -> IF l.phase = "validate" THEN 2 ELSE 3
      [] p \in {"login", "l_context", "l_interact", "l_save", "lg_start",
                "lg_goto", "lg_ionic", "lg_settle", "lg_email", "lg_password",
                "lg_submit", "lg_returned", "lg_raised", "lg_cancelled"} -> 3
      [] p \in {"search", "s_goto", "s_wait", "s_fill", "s_fallback", "s_click"} -> 4
      [] p \in {"extract", "e_select", "e_extract"} -> 5
      [] p = "f_save" -> 6
      [] OTHER -> 7

(* the position at which each step begins *)
StepEntries == {"v_expired", "login", "search", "extract", "f_save"}

(* C26: the steps of query() run in the order browser, validation, login,
   search, extraction, final save, end: a step is followed by itself, by the
   next one or by the end, validation alone may pass over login, and it does
   so exactly when it left a context behind (returned valid); a step is
   begun only from an earlier step, so none runs twice and a failed login is
   not started again. *)
C26_StepsInOrder ==
    [][LET a == StepOf(pc, lg)
           b == StepOf(pc', lg')
       IN  /\ b \in {a, a + 1, 7} \/ (a = 2 /\ pc' = "search")
           /\ (pc' \in StepEntries /\ pc' # pc) => a < b
           /\ (a = 2 /\ b \in {3, 4}) =>
                 /\ pc' \in {"login", "search"}
                 /\ pc' = "login" <=> self'.context = "None"]_vars

(* a query that went through every step and returned a result *)
C26_Witness ==
    /\ pc = "done"
    /\ out.kind = "result"
    /\ {"validate", "login", "search", "extract", "save_session"} \subseteq log.hist
    /\ log.saves = 2

(* C27: _validate_session never raises: whenever the query leaves session
   validation it goes on to login (invalid) or to the search (valid), unless
   the caller's timeout cancelled it. *)
C27_ValidateNeverRaises ==
    [][(StepOf(pc, lg) = 2 /\ StepOf(pc', lg') # 2) =>
          \/ pc' \in {"login", "search"}
          \/ out'.kind = "TimeoutError"]_vars

(* C28: when the stored session is expired or absent as the query comes to
   it, _validate_session answers invalid at once: the query goes to login
   with load_session not called (so no lock taken), no context or page
   created, no navigation made and the file untouched. *)
C28_ExpiredShortCircuits ==
    [][(pc = "v_expired" /\ file \in {"absent", "expired"}) =>
          /\ pc' = "login"
          /\ "load_session" \notin log'.hist
          /\ self' = self /\ self'.context = "None" /\ self'.page = "None"
          /\ web' = web /\ file' = file]_vars

(* validation has just answered invalid for an expired session *)
C28_Witness ==
    /\ pc = "login"
    /\ file = "expired"
    /\ log.hist = {"validate"}
    /\ self.context = "None"

(* login() was called for this query and returned *)
Authenticated ==
    /\ "login" \in log.hist /\ cfg.auth # "none"
    /\ StepOf(pc, lg) \in {4, 5, 6} \/ out.kind = "result"

(* C29: once login() has returned and the query is at the search or beyond
   it, save_session has written the store; and a query that has its result
   has written it (once more) after the extraction: the store holds a fresh
   record and save_session ran once for the login and once for the result. *)
C29_StoreWrittenAfterLoginAndResult ==
    /\ Authenticated => log.saves >= 1 /\ "save_session" \in log.hist
    /\ (Authenticated /\ StepOf(pc, lg) \in {4, 5, 6}) =>
          log.saves = 1 /\ file = "fresh"
    /\ out.kind = "result" =>
          /\ file = "fresh"
          /\ log.saves = IF Authenticated THEN 2 ELSE 1

(* the result of a query that logged in is about to be sent *)
C29_Witness ==
    /\ pc = "respond"
    /\ out.kind = "result"
    /\ Authenticated
    /\ log.saves = 2

(* C31: no step of cleanup() raises: whether a close succeeds or fails, the
   outcome of the query stays as it was, the next resource is turned to in
   the order page, context, browser, driver, and each resource that was
   open has had its close attempted. *)
C31_CleanupNeverRaises ==
    [][\A f \in Fields :
          pc = "cleanup_" \o f =>
              /\ out' = out
              /\ pc' = CASE f = "page" -> "cleanup_context"
                         [] f = "context" -> "cleanup_browser"
                         [] f = "browser" -> "cleanup_playwright"
                         [] OTHER -> "respond"
              /\ self[f] = "set" => f \in log'.tried
              /\ \A g \in Fields \ {f} : self'[g] = self[g]]_vars

(* a query answered with its result although closing the page failed, the
   browser having been closed after that *)
C31_Witness ==
    /\ pc = "done"
    /\ out.kind = "result" /\ out.status = 200
    /\ log.tried = Fields
    /\ self.page = "set"
    /\ self.browser = "None"

(* C32: session validation follows session.validation.method.  With
   cookies_only no page is loaded and the cookie check decides: valid comes
   only from a passed check, and a failed check closes the context.  With
   quick a passed check gives valid with no page loaded and no strategy
   asked, a failed one goes on to the full validation.  With full the cookie
   check is not made, and valid comes only after the base URL was loaded,
   from a site without auth strategy or from validate_session finding a
   success indicator. *)
C32_ValidationFollowsMode ==
    [][StepOf(pc, lg) = 2 =>
          /\ cfg.validation = "cookies_only" =>
                /\ web' = NoPage
                /\ pc' \notin {"v_page", "v_goto", "v_strategy", "check"}
                /\ pc = "v_quick" => pc' \in {"v_quick_page", "v_close", "aexit"}
                /\ pc' = "search" => pc = "v_quick_page"
          /\ cfg.validation = "quick" =>
                /\ pc = "v_quick" => pc' \in {"v_quick_page", "v_page", "aexit"}
                /\ (pc = "v_quick_page" /\ pc' = "search") =>
                      web' = NoPage /\ lg = NoLogin
          /\ cfg.validation = "full" =>
                /\ pc' \notin {"v_quick", "v_quick_page", "v_close"}
                /\ pc = "v_page" => pc' \in {"v_goto", "v_exc_close", "aexit"}
          /\ (pc' = "search" /\ pc # "v_quick_page") =>
                /\ web' \in Pages
                /\ \/ cfg.auth = "none" /\ pc = "v_strategy"
                   \/ /\ cfg.auth = "form_based" /\ pc = "check"
                      /\ lg.phase = "validate"
                      /\ \E i \in DOMAIN cfg.success_indicators :
                            _check_indicator(web, cfg.success_indicators[i], TRUE)
                            \/ _check_indicator(web, cfg.success_indicators[i], FALSE)]_vars

(* method quick: the cookie check failed and the full validation then found
   the session valid *)
C32_Witness ==
    /\ pc = "search"
    /\ cfg.validation = "quick"
    /\ cfg.auth = "form_based"
    /\ web \in Pages
    /\ "login" \notin log.hist
    /\ self.page = "set"

(* C35: while the search step or the extraction step of a query runs,
   self.context and self.page are set, whatever the auth type and whatever
   session validation answered. *)
C35_PageOpenForSearchAndExtraction ==
    StepOf(pc, lg) \in {4, 5} =>
        self.context = "set" /\ self.page = "set"

(* C36: a save_session that raises, after login() has returned or after the
   extraction, ends the query: query() raises
   ScraperException("Query execution failed: ...") and returns no result.
   (The step leaves a save position with a context held, no save counted
   and no timeout: the save has raised.) *)
C36_SaveFailureAbortsQuery ==
    [][(/\ pc \in {"l_save", "f_save"}
        /\ self.context = "set"
        /\ log'.saves = log.saves
        /\ timer' = timer) =>
          /\ pc' = "aexit"
          /\ out'.kind = "ScraperException"
          /\ Head(out'.msg) = "Query execution failed: "
          /\ out'.result = NoResult]_vars

(* the extraction had its result and the final save raised *)
C36_Witness ==
    /\ pc = "aexit"
    /\ "extract" \in log.hist
    /\ ex.result # NoResult
    /\ out.kind = "ScraperException"
    /\ Head(out.msg) = "Query execution failed: "
    /\ out.result = NoResult

(* C37: what the extractor chosen by select_extractor does is final: from
   extract() the query goes to its final save with that extractor's
   records, none included, or ends (extract raised: "Data extraction
   failed", or the timeout); no other strategy is tried after it. *)
C37_ChosenExtractorIsFinal ==
    [][pc = "e_extract" =>
          /\ pc' \in {"f_save", "aexit"}
          /\ ex'.chosen = ex.chosen /\ ex'.i = ex.i
          /\ pc' = "f_save" =>
                /\ ex'.result.extractor = ex.chosen
                /\ ex.chosen = cfg.strategies[ex.i]
          /\ pc' = "aexit" =>
                \/ out'.kind = "TimeoutError"
                \/ /\ out'.kind = "ScraperException"
                   /\ Head(out'.msg) = "Data extraction failed: "]_vars

(* the first of two strategies was chosen and found no record: the query
   has its result with zero records *)
C37_Witness ==
    /\ pc = "done"
    /\ out.kind = "result"
    /\ out.result.records = 0
    /\ Len(cfg.strategies) > 1
    /\ out.result.extractor = cfg.strategies[1]

(***************************************************************************)
(* Claims about the entry points (checked under SpecEntry).                *)
(***************************************************************************)
(* the text is empty, blank, or longer than the maximum *)
InvalidQuery(v) == v = <<>> \/ QStrip(v) = <<>> \/ QLen(v) > MaxQueryLength

(* C13: a query text that is empty, whitespace-only or longer than 1000
   characters is rejected at either entry point before the configuration is
   resolved and before a browser is launched; a text of exactly 1000
   characters is not rejected. *)
C13_InvalidQueryRejectedEarly ==
    /\ InvalidQuery(req.raw) =>
          /\ pc \in {"entry", "done"}
          /\ out.kind \in {"none", "ValidationError", "cli_error"}
          /\ self = [f \in Fields |-> "None"]
    /\ (~InvalidQuery(req.raw) /\ QLen(req.raw) = MaxQueryLength) =>
          out.kind \notin {"ValidationError", "cli_error"}

(* C14: for a site id without configuration the query fails with a
   configuration error (HTTP: 404 from load_site's ConfigurationException;
   CLI: the ScraperException of GenericScraper.__init__) and nothing of the
   browser is started and no session record is read or written. *)
C14_UnknownSiteNoBrowser ==
    ~cfg.exists =>
        /\ self = [f \in Fields |-> "None"]
        /\ log = NoLog
        /\ pc \in {"entry", "resolve", "construct", "done"}
        /\ (pc = "done" /\ out.kind \notin {"ValidationError", "cli_error"}) =>
              \/ out.kind = "HTTPException" /\ out.status = 404
              \/ /\ out.kind = "ScraperException"
                 /\ Contains(out.msg, <<"Site configuration error: ">>)

(* C14 witness: the 404 answer for an unknown site, nothing started *)
C14_Witness ==
    /\ ~cfg.exists /\ pc = "done" /\ req.entry = "api"
    /\ out.kind = "HTTPException" /\ out.status = 404
    /\ self = [f \in Fields |-> "None"]

(* C17, as stated: query() ends either by returning one result or by raising
   one ScraperException, never both and never otherwise. *)
C17_ResultOrScraperException ==
    pc = "aexit" =>
        /\ out.kind \in {"result", "ScraperException"}
        /\ out.kind = "result" => (out.result # NoResult /\ out.msg = <<>>)
        /\ out.kind = "ScraperException" => (out.result = NoResult /\ out.msg # <<>>)

(* C17, amended: query() ends by returning one result, by raising one
   ScraperException, or, cancelled by the caller's timeout, with the
   CancelledError that `except Exception` does not catch; every other
   exception leaves wrapped as ScraperException("Query execution failed:
   ..."), and a result and a failure never leave together. *)
C17_ResultFailureOrCancelled ==
    pc = "aexit" =>
        /\ out.kind \in {"result", "ScraperException", "TimeoutError"}
        /\ out.kind = "result" => (out.result # NoResult /\ out.msg = <<>>)
        /\ out.kind = "ScraperException" =>
              /\ out.result = NoResult
              /\ Head(out.msg) \in {"Query execution failed: ",
                                    "Browser initialization failed: ",
                                    "Unsupported auth type: ",
                                    "Authentication failed: ",
                                    "No extraction strategies configured",
                                    "Data extraction failed: "}
        /\ out.kind = "TimeoutError" =>
              (out.result = NoResult /\ out.msg = <<>> /\ timer = "fired")

(* C17 witness: a browser call raised and query() ends with the wrapping
   ScraperException *)
C17_Witness ==
    /\ pc = "aexit" /\ out.kind = "ScraperException"
    /\ out.msg = <<"Query execution failed: ", "boom">>
    /\ out.result = NoResult

(* C18: a failed query is answered with the kind of the stage that failed:
   an extraction failure is never answered as an authentication failure
   (401), an authentication failure is always answered as one, and a timeout
   as a timeout (504). *)
C18_KindMatchesStage ==
    (pc = "done" /\ cfg.exists) =>
        /\ (out.kind = "ScraperException" /\ Head(out.msg) = "Data extraction failed: ")
              => out.status # 401
        /\ (out.kind = "ScraperException" /\ Head(out.msg) = "Authentication failed: ")
              => out.status = 401
        /\ out.kind = "TimeoutError" => out.status = 504

(* C19: with no credentials for the site, a query against a none-auth site
   is never failed for the lack of them, and a query against a site of any
   other auth kind is answered with an authentication failure (401), unless
   the environment failed first. *)
C19_NoCredentials ==
    (cfg.exists /\ ~cfg.creds /\ pc = "done") =>
        /\ cfg.auth = "none" =>
              /\ ~Contains(out.msg, <<"Authentication failed: ">>)
              /\ ~Contains(out.msg, <<"Missing email/username or password in credentials">>)
        /\ (cfg.auth # "none" /\ ~EnvironmentFailed) =>
              /\ out.kind = "ScraperException"
              /\ out.status = 401

(***************************************************************************)
(* Claims about is_session_expired (checked under SpecExpiry).             *)
(***************************************************************************)
(* C15: is_session_expired answers False at age ttl - 1 and at age ttl,
   True at age ttl + 1 (expiry is strict: age > ttl), and True whenever the
   record does not exist. *)
C15_ExpiryIsStrict ==
    tm.ans # "none" =>
        /\ ~tm.had => tm.ans = "expired"
        /\ (tm.had /\ tm.age = tm.ttl - 1) => tm.ans = "valid"
        /\ (tm.had /\ tm.age = tm.ttl) => tm.ans = "valid"
        /\ (tm.had /\ tm.age = tm.ttl + 1) => tm.ans = "expired"
        /\ tm.had => (tm.ans = "expired" <=> tm.age > tm.ttl)

(* C15 witness: a record checked at the age of exactly the default ttl *)
C15_Witness ==
    /\ tm.had /\ tm.ttl = DefaultTtl /\ tm.age = DefaultTtl /\ tm.ans = "valid"

(* C38: the TTL window slides with the saves: is_session_expired, asked
   about a record that exists, answers expired exactly when more than ttl
   seconds have passed since the last save_session wrote it, however long
   ago the record was first written. *)
C38_ExpirySlidesWithSaves ==
    [][(/\ tm.exists /\ tm'.exists
        /\ tm'.now = tm.now /\ tm'.saved = tm.saved /\ tm'.mtime = tm.mtime) =>
          (tm'.ans = "expired" <=> tm.now - tm.saved > tm.ttl)]_vars

(* a record first written more than ttl seconds ago and saved again since
   is found valid *)
C38_Witness ==
    /\ tm.exists /\ tm.had
    /\ tm.now > tm.ttl
    /\ tm.saved > 0
    /\ tm.now - tm.saved <= tm.ttl
    /\ tm.ans = "valid"

(***************************************************************************)
(* Claims about _get_auth_strategy (checked under SpecAuth).               *)
(***************************************************************************)
(* the kind the config declares: auth.scenario, else auth.type, else none *)
DeclaredKind(auth_config) ==
    IF auth_config.scenario # "absent" THEN auth_config.scenario
    ELSE IF auth_config.type # "absent" THEN auth_config.type
    ELSE "none"

(* C20: _get_auth_strategy resolves the declared kind through AuthRegistry:
   None for 'none', an instance of the registered class for a registered
   kind (simple_form and form_based: FormBasedAuth, api_key: APIKeyAuth),
   ScraperException for a kind that is not registered. *)
C20_StrategyFromRegistry ==
    authState.ret # "none" =>
        LET kind == DeclaredKind(authState.config) IN
        authState.ret = IF kind = "none" THEN "None"
                        ELSE IF AuthRegistryGet(kind) = "None" THEN "ScraperException"
                        ELSE AuthRegistryGet(kind)

(***************************************************************************)
(* Claims about plugins and site configs (checked under SpecPlugins).      *)
(***************************************************************************)
(* C21: load_site(site_id) returns the plugin's configuration exactly when
   an enabled plugin with that id exists at the time of the call; otherwise
   it returns the legacy site file, or raises ConfigurationException if
   there is none. *)
C21_LoadSiteFollowsPluginState ==
    plug.op = "load_site" =>
        /\ plug.ret = "plugin" <=> plug.plugins[plug.id] = "on"
        /\ plug.plugins[plug.id] # "on" =>
              plug.ret = IF plug.id \in plug.legacy THEN "legacy"
                         ELSE "ConfigurationException"

(* C22: every loaded plugin is enabled iff the last enable_plugin or
   disable_plugin call for it was enable_plugin, or none was made, and
   get_enabled_plugins() lists exactly those; both calls return True for a
   loaded id and False for an unknown one, changing no plugin. *)
C22_EnabledFollowsLastCall ==
    /\ plug.loaded =>
          \A i \in PluginIds :
              /\ plug.plugins[i] # "absent" <=> i \in plug.disk
              /\ plug.plugins[i] # "absent" =>
                    (plug.plugins[i] = "on" <=> plug.last[i] # "disable")
    /\ plug.op = "get_enabled_plugins" =>
          plug.listed = {i \in plug.disk : plug.last[i] # "disable"}
    /\ plug.op \in {"enable_plugin", "disable_plugin"} =>
          plug.ret = IF plug.id \in plug.disk THEN "True" ELSE "False"

(* C22 witness: get_enabled_plugins() after emis was disabled and example
   enabled *)
C22_Witness ==
    /\ plug.op = "get_enabled_plugins" /\ plug.listed = {"example"}
    /\ plug.disk = PluginIds
    /\ plug.last = [i \in PluginIds |-> IF i = "emis" THEN "disable" ELSE "enable"]

(***************************************************************************)
(* Claims about AuthRegistry (checked under SpecRegistry).                 *)
(***************************************************************************)
(* the class of the most recent register(s, .) among calls, None if none *)
MostRecent(calls, s) ==
    LET at == {k \in 1..Len(calls) : calls[k][1] = s} IN
    IF at = {} THEN "None"
    ELSE calls[CHOOSE k \in at : \A j \in at : j <= k][2]

(* C23: get(s) returns the class of the most recent register(s, .) and None
   if s, in exactly that spelling, was never registered; is_registered(s)
   and list_scenarios() both answer with the names registered so far. *)
C23_GetReturnsLastRegistered ==
    /\ registry.op = "get" => registry.ret = MostRecent(registry.calls, registry.arg)
    /\ registry.op = "is_registered" =>
          (registry.ret = "True" <=>
              \E k \in 1..Len(registry.calls) : registry.calls[k][1] = registry.arg)
    /\ registry.op = "list_scenarios" =>
          registry.listed = {registry.calls[k][1] : k \in 1..Len(registry.calls)}

(* C23 witness: get('simple_form') after the built-in FormBasedAuth was
   overwritten, with SIMPLE_FORM never registered *)
C23_Witness ==
    /\ registry.op = "get" /\ registry.arg = "simple_form"
    /\ registry.ret = "APIKeyAuth"
    /\ registry.calls[1] = <<"simple_form", "FormBasedAuth">>
    /\ registry.strategies["SIMPLE_FORM"] = "None"

(***************************************************************************)
(* Claims about handle_interactions (checked under SpecInteract).          *)
(***************************************************************************)
(* the calls made to handler `name` so far *)
CallsTo(name) == SelectSeq(ia.calls, LAMBDA c : c.name = name)

(* C30: handle_interactions calls the handlers in ascending order of
   priority; handle is called only for a handler whose detect has just
   answered true; whatever one handler did (declined, succeeded, reported
   failure, raised in detect or in handle) every later handler is still
   asked; and _handle_interactions ends by returning, never by raising. *)
C30_HandlersInPriorityOrder ==
    /\ \A a, b \in DOMAIN ia.calls :
          a < b => ia.calls[a].priority <= ia.calls[b].priority
    /\ \A b \in DOMAIN ia.calls :
          ia.calls[b].op = "handle" =>
              /\ b > 1
              /\ ia.calls[b - 1] =
                    [ia.calls[b] EXCEPT !.op = "detect", !.outcome = "true"]
    /\ ia.ret \in {"none", "None"}
    /\ (ia.pc = "done" /\ ~ia.caught) =>
          \A k \in DOMAIN ia.reg :
              /\ Len(CallsTo(k)) \in {1, 2}
              /\ CallsTo(k)[1].op = "detect"
              /\ CallsTo(k)[1].outcome = "true" <=> Len(CallsTo(k)) = 2

(* classes registered against their priorities; the first handler raised in
   handle, the next raised in detect, and the last was still handled *)
C30_Witness ==
    /\ ia.pc = "done"
    /\ ia.reg = <<50, 10, 50>>
    /\ Len(ia.calls) = 5
    /\ ia.calls[1].name = 2
    /\ ia.calls[2].outcome = "raises"
    /\ ia.calls[3].outcome = "raises"
    /\ ia.calls[5].op = "handle" /\ ia.calls[5].name = 3
    /\ ia.ret = "None"

(***************************************************************************)
(* Claims about the API key (checked under SpecGate).                      *)
(***************************************************************************)
(* C39: with an API key configured, a query request, on /query or on
   /query/{site_id}, that does not carry the matching X-API-Key header runs
   no GenericScraper and is answered 401. *)
C39_NoScrapeWithoutApiKey ==
    (/\ gate.API_KEY \notin {"None", ""}
     /\ gate.path \in {"/query", "/query/emis"}
     /\ gate.header # gate.API_KEY) =>
        /\ ~gate.scraper
        /\ gate.pc # "route"
        /\ gate.pc = "done" => gate.status = 401

(***************************************************************************)
(* Claims about FormBasedAuth.login (checked under SpecLogin).             *)
(***************************************************************************)
(* the indicator holds of the page login() is on *)
Matches(indicator) == _check_indicator(web, indicator, web.broken)

AnyMatches(indicators) == \E i \in 1..Len(indicators) : Matches(indicators[i])

(* C7: after the submit, login() fails when a failure indicator matches,
   whatever the success indicators say; otherwise it returns True exactly
   when a success indicator matches; with no match at all it fails. *)
C7_IndicatorPrecedence ==
    (pc \in {"lg_returned", "lg_raised"} /\ lg.phase \in {"failure", "success"}) =>
        (pc = "lg_returned" <=>
            (/\ ~AnyMatches(cfg.failure_indicators)
             /\ AnyMatches(cfg.success_indicators)))

(* C7 witness: a failure and a success indicator both match, login() raised *)
C7_Witness ==
    /\ pc = "lg_raised" /\ lg.phase = "failure"
    /\ AnyMatches(cfg.failure_indicators)
    /\ AnyMatches(cfg.success_indicators)
====
